---- MODULE Spec2Model ----
(***************************************************************************)
(* Authentication / authorization core of fastapi-graphql-api:             *)
(* the account lockout state machine reached through                       *)
(* AuthenticationService.authenticate_user, UsernamePasswordAuthStrategy   *)
(* and EmailAuthStrategy, and the role/permission resolution of            *)
(* AuthorizationService.                                                   *)
(***************************************************************************)
EXTENDS Integers, Sequences, FiniteSets, TLC

VARIABLES users, roles, permissions, groups, calls, now, failures, issued, op

vars == <<users, roles, permissions, groups, calls, now, failures, issued, op>>

(* ------------------------------------------------------------------ *)
(* Bounds                                                             *)
(* ------------------------------------------------------------------ *)
MaxTime == 45
MaxCount == 6
MaxNames == 2
MaxIssued == 2
MaxHeld == 1
MaxCalls == 2
MaxMembers == 3

(* ------------------------------------------------------------------ *)
(* Program constants                                                  *)
(* ------------------------------------------------------------------ *)
MAX_LOGIN_ATTEMPTS == 5
LOCKOUT_DURATION_MINUTES == 30
LOCK_AFTER_ATTEMPTS == 5
LOCK_ACCOUNT_DEFAULT_MINUTES == 30

None == "None"
NoneTime == -1

ValidationErrorRequired == "ValidationError: Both identifier and password are required"
AuthErrorRequired == "AuthenticationError: Username/email and password are required"
AuthErrorInvalidCredentials == "AuthenticationError: Invalid credentials"
AuthErrorInactive == "AuthenticationError: Account is inactive"
AuthErrorLocked == "AuthenticationError: Account is locked"
AuthErrorLockedStrategy == "AuthenticationError: Account is locked due to too many failed attempts"
AuthErrorEmailRequired == "AuthenticationError: Email is required"
AuthErrorUserNotFound == "AuthenticationError: User not found"
AuthErrorInvalidMagic == "AuthenticationError: Invalid magic token"
NotFoundErrorUser == "NotFoundError: not found with ID"
NoError == ""

(* ------------------------------------------------------------------ *)
(* Universes of inputs                                                *)
(* ------------------------------------------------------------------ *)
UserIds == {"u1", "u2"}
UserOrder == <<"u1", "u2">>
Identifiers == {"alice", "alice@x.io", "nobody"}
Passwords == {"secret", "wrong"}
TickSteps == {15, 30}
RoleIds == {"r1", "r2"}
RoleOrder == <<"r1", "r2">>
PermIds == {"p1", "p2"}
PermOrder == <<"p1", "p2">>
RoleNameOf == [r \in RoleIds |-> IF r = "r1" THEN "admin" ELSE "editor"]
PermNameOf == [p \in PermIds |-> IF p = "p1" THEN "users:read" ELSE "users:write"]
RoleNames == {"admin", "editor", "guest"}
PermNames == {"users:read", "users:write"}

(* ------------------------------------------------------------------ *)
(* Credential hasher                                                  *)
(* ------------------------------------------------------------------ *)
HashPassword(password, salt) ==
    [scheme |-> "pbkdf2_sha256", salt |-> salt, digest |-> <<salt, password>>]

VerifyPassword(plain_password, hashed_password) ==
    hashed_password.digest = <<hashed_password.salt, plain_password>>

(* ------------------------------------------------------------------ *)
(* Token manager                                                      *)
(* ------------------------------------------------------------------ *)
SECRET_KEY == "your-secret-key-change-this"
TokenErrorExpired == "TokenError: Token has expired"
TokenErrorInvalid == "TokenError: Invalid token"

JwtEncode(payload, key) ==
    [kind |-> "jwt", payload |-> payload, signature |-> key]

NoToken == [kind |-> "none", payload |-> <<>>, signature |-> ""]

MalformedToken == [kind |-> "malformed", payload |-> <<>>, signature |-> ""]

Claims(sub, email, exp, type) ==
    [sub |-> sub, email |-> email, exp |-> exp, type |-> type]

DecodeToken_ExpiredAsInvalid(token, t) ==
    IF token.kind # "jwt" \/ token.signature # SECRET_KEY
    THEN [error |-> TokenErrorInvalid, payload |-> <<>>]
    ELSE IF token.payload.exp <= t
         THEN [error |-> TokenErrorInvalid, payload |-> <<>>]
         ELSE [error |-> NoError, payload |-> token.payload]

DecodeToken(token, t) ==
    IF token.kind # "jwt" \/ token.signature # SECRET_KEY
    THEN [error |-> TokenErrorInvalid, payload |-> <<>>]
    ELSE IF token.payload.exp <= t
         THEN [error |-> TokenErrorExpired, payload |-> <<>>]
         ELSE [error |-> NoError, payload |-> token.payload]

ACCESS_TOKEN_EXPIRE_MINUTES == 30
REFRESH_TOKEN_EXPIRE_MINUTES == 10080
SET_PASSWORD_TOKEN_EXPIRE_MINUTES == 60

DictUpdate(data, extra) ==
    [k \in DOMAIN data \cup DOMAIN extra |->
        IF k \in DOMAIN extra THEN extra[k] ELSE data[k]]

DictGet(data, key) == IF key \in DOMAIN data THEN data[key] ELSE None

CreateAccessToken_DropsClaims(data, t) ==
    JwtEncode([exp |-> t + ACCESS_TOKEN_EXPIRE_MINUTES, type |-> "access"],
              SECRET_KEY)

CreateAccessToken(data, t) ==
    JwtEncode(DictUpdate(data, [exp |-> t + ACCESS_TOKEN_EXPIRE_MINUTES,
                                type |-> "access"]),
              SECRET_KEY)

CreateRefreshToken(data, t) ==
    JwtEncode(DictUpdate(data, [exp |-> t + REFRESH_TOKEN_EXPIRE_MINUTES,
                                type |-> "refresh"]),
              SECRET_KEY)

CreateActionToken(data, minutes, token_type, t) ==
    JwtEncode(DictUpdate(data, [exp |-> t + minutes, type |-> token_type]),
              SECRET_KEY)

CreateSetPasswordToken(data, t) ==
    CreateActionToken(data, SET_PASSWORD_TOKEN_EXPIRE_MINUTES,
                      "set_password", t)

(* ------------------------------------------------------------------ *)
(* Principal store                                                    *)
(* ------------------------------------------------------------------ *)
In(x, list) == \E i \in 1..Len(list) : list[i] = x

ToSet(list) == {list[i] : i \in 1..Len(list)}

FirstIn(order, matching) ==
    IF matching = {} THEN None
    ELSE order[CHOOSE i \in 1..Len(order) :
                  /\ order[i] \in matching
                  /\ \A j \in 1..(i - 1) : order[j] \notin matching]

NewUser(username, email, password) ==
    [username |-> username, email |-> email,
     hashed_password |-> HashPassword(password, 1),
     is_active |-> TRUE, is_superuser |-> FALSE,
     login_attempts |-> 0, failed_login_attempts |-> 0,
     locked_until |-> NoneTime,
     role_ids |-> <<>>, permission_ids |-> <<>>,
     is_deleted |-> FALSE]

GetById(record_id) ==
    IF record_id \in DOMAIN users THEN record_id ELSE None

GetByUsername(username) ==
    FirstIn(UserOrder, {u \in DOMAIN users : users[u].username = username})

GetByEmail(email) ==
    FirstIn(UserOrder, {u \in DOMAIN users : users[u].email = email})

GetByEmailOrUsername(identifier) ==
    FirstIn(UserOrder, {u \in DOMAIN users :
                 users[u].email = identifier \/ users[u].username = identifier})

Update(record_id, update_data) ==
    IF record_id \in DOMAIN users
    THEN [users EXCEPT ![record_id] =
            [f \in DOMAIN @ |-> IF f \in DOMAIN update_data
                                THEN update_data[f] ELSE @[f]]]
    ELSE users

(* ------------------------------------------------------------------ *)
(* User model                                                         *)
(* ------------------------------------------------------------------ *)
IsLocked_Inverted(user, t) ==
    IF user.locked_until # NoneTime THEN t > user.locked_until ELSE FALSE

IsLocked(user, t) ==
    IF user.locked_until # NoneTime THEN t < user.locked_until ELSE FALSE

LockAccount(user, t) ==
    [user EXCEPT !.locked_until = t + LOCK_ACCOUNT_DEFAULT_MINUTES]

IncrementLoginAttempts(user, t) ==
    LET bumped == [user EXCEPT !.login_attempts = @ + 1]
        locked == IF bumped.login_attempts >= LOCK_AFTER_ATTEMPTS
                  THEN LockAccount(bumped, t) ELSE bumped
    IN [login_attempts |-> locked.login_attempts,
        locked_until |-> locked.locked_until]

ResetLoginAttempts(user) ==
    [login_attempts |-> 0, locked_until |-> NoneTime]

(* ------------------------------------------------------------------ *)
(* AuthenticationService helpers                                      *)
(* ------------------------------------------------------------------ *)
FindUserByIdentifier(identifier) ==
    IF GetByEmail(identifier) # None THEN GetByEmail(identifier)
    ELSE GetByUsername(identifier)

CheckAccountStatus_NoLockCheck(user, t) ==
    IF ~user.is_active THEN AuthErrorInactive ELSE NoError

CheckAccountStatus(user, t) ==
    IF ~user.is_active THEN AuthErrorInactive
    ELSE IF user.locked_until # NoneTime /\ user.locked_until > t
         THEN AuthErrorLocked
         ELSE NoError

HandleFailedLogin_OffByOne(user, t) ==
    LET attempts == user.failed_login_attempts + 1
    IN [failed_login_attempts |-> attempts,
        locked_until |-> IF attempts > MAX_LOGIN_ATTEMPTS
                         THEN t + LOCKOUT_DURATION_MINUTES
                         ELSE user.locked_until]

HandleFailedLogin(user, t) ==
    LET attempts == user.failed_login_attempts + 1
    IN [failed_login_attempts |-> attempts,
        locked_until |-> IF attempts >= MAX_LOGIN_ATTEMPTS
                         THEN t + LOCKOUT_DURATION_MINUTES
                         ELSE user.locked_until]

HandleSuccessfulLogin(user) ==
    [failed_login_attempts |-> 0, locked_until |-> NoneTime]

(* ------------------------------------------------------------------ *)
(* Role and permission stores                                         *)
(* ------------------------------------------------------------------ *)
RoleGetById(role_id) ==
    IF role_id \in DOMAIN roles THEN role_id ELSE None

PermissionGetById(perm_id) ==
    IF perm_id \in DOMAIN permissions THEN perm_id ELSE None

PermissionGetByName(name) ==
    FirstIn(PermOrder, {p \in DOMAIN permissions : permissions[p].name = name})

(* ------------------------------------------------------------------ *)
(* AuthorizationService                                               *)
(* ------------------------------------------------------------------ *)
RECURSIVE RoleGrants(_, _, _)
RoleGrants_FirstRoleOnly(role_ids, i, perm) ==
    IF i > Len(role_ids) THEN FALSE
    ELSE LET role == RoleGetById(role_ids[i])
         IN role # None /\ In(perm, roles[role].permission_ids)

RoleGrants(role_ids, i, perm) ==
    IF i > Len(role_ids) THEN FALSE
    ELSE LET role == RoleGetById(role_ids[i])
         IN IF role # None /\ In(perm, roles[role].permission_ids)
            THEN TRUE
            ELSE RoleGrants(role_ids, i + 1, perm)

HasPermission(user, permission_name) ==
    IF user.is_superuser THEN TRUE
    ELSE LET perm == PermissionGetByName(permission_name)
         IN IF perm = None THEN FALSE
            ELSE IF In(perm, user.permission_ids) THEN TRUE
            ELSE RoleGrants(user.role_ids, 1, perm)

HasPermissionLookups(user, permission_name) ==
    IF user.is_superuser THEN <<>> ELSE <<permission_name>>

RECURSIVE RoleNamed(_, _, _)
RoleNamed(role_ids, i, role_name) ==
    IF i > Len(role_ids) THEN FALSE
    ELSE LET role == RoleGetById(role_ids[i])
         IN IF role # None /\ roles[role].name = role_name
            THEN TRUE
            ELSE RoleNamed(role_ids, i + 1, role_name)

HasRole_NoBypass(user, role_name) ==
    RoleNamed(user.role_ids, 1, role_name)

HasRole(user, role_name) ==
    IF user.is_superuser THEN TRUE
    ELSE RoleNamed(user.role_ids, 1, role_name)

RECURSIVE AnyPermissionFrom(_, _, _, _, _)
AnyPermissionFrom(user, names, i, evaluated, lookups) ==
    IF i > Len(names)
    THEN [result |-> FALSE, evaluated |-> evaluated, lookups |-> lookups]
    ELSE LET ev == Append(evaluated, names[i])
             lk == lookups \o HasPermissionLookups(user, names[i])
         IN IF HasPermission(user, names[i])
            THEN [result |-> TRUE, evaluated |-> ev, lookups |-> lk]
            ELSE AnyPermissionFrom(user, names, i + 1, ev, lk)

RECURSIVE AnyPermissionFrom_NoShortCircuit(_, _, _, _, _)
AnyPermissionFrom_NoShortCircuit(user, names, i, evaluated, lookups) ==
    IF i > Len(names)
    THEN [result |-> \E k \in 1..Len(names) : HasPermission(user, names[k]),
          evaluated |-> evaluated, lookups |-> lookups]
    ELSE AnyPermissionFrom_NoShortCircuit(user, names, i + 1,
            Append(evaluated, names[i]),
            lookups \o HasPermissionLookups(user, names[i]))

HasAnyPermission_NoShortCircuit(user, names) ==
    AnyPermissionFrom_NoShortCircuit(user, names, 1, <<>>, <<>>)

HasAnyPermission(user, names) == AnyPermissionFrom(user, names, 1, <<>>, <<>>)

RECURSIVE AllPermissionsFrom(_, _, _, _, _)
AllPermissionsFrom(user, names, i, evaluated, lookups) ==
    IF i > Len(names)
    THEN [result |-> TRUE, evaluated |-> evaluated, lookups |-> lookups]
    ELSE LET ev == Append(evaluated, names[i])
             lk == lookups \o HasPermissionLookups(user, names[i])
         IN IF ~HasPermission(user, names[i])
            THEN [result |-> FALSE, evaluated |-> ev, lookups |-> lk]
            ELSE AllPermissionsFrom(user, names, i + 1, ev, lk)

HasAllPermissions(user, names) == AllPermissionsFrom(user, names, 1, <<>>, <<>>)

RECURSIVE PermissionNames(_, _)
PermissionNames(perm_ids, i) ==
    IF i > Len(perm_ids) THEN <<>>
    ELSE LET p == PermissionGetById(perm_ids[i])
         IN (IF p # None THEN <<permissions[p].name>> ELSE <<>>)
            \o PermissionNames(perm_ids, i + 1)

RECURSIVE RolePermissionNames(_, _)
RolePermissionNames(role_ids, i) ==
    IF i > Len(role_ids) THEN <<>>
    ELSE LET role == RoleGetById(role_ids[i])
         IN (IF role # None
             THEN PermissionNames(roles[role].permission_ids, 1)
             ELSE <<>>)
            \o RolePermissionNames(role_ids, i + 1)

ListOfSet(S) ==
    {l \in [1..Cardinality(S) -> S] : \A i, j \in DOMAIN l : l[i] = l[j] => i = j}

GetUserPermissionsNames(user_id) ==
    LET user == GetById(user_id)
    IN IF user = None THEN <<>>
       ELSE PermissionNames(users[user].permission_ids, 1)
            \o RolePermissionNames(users[user].role_ids, 1)

GetUserPermissionsResults_NoDedup(user_id) ==
    {GetUserPermissionsNames(user_id)}

GetUserPermissionsResults(user_id) ==
    IF GetById(user_id) = None THEN {<<>>}
    ELSE ListOfSet(ToSet(GetUserPermissionsNames(user_id)))

RECURSIVE RoleNamesOf(_, _)
RoleNamesOf(role_ids, i) ==
    IF i > Len(role_ids) THEN <<>>
    ELSE LET role == RoleGetById(role_ids[i])
         IN (IF role # None THEN <<roles[role].name>> ELSE <<>>)
            \o RoleNamesOf(role_ids, i + 1)

GetUserRoles(user_id) ==
    LET user == GetById(user_id)
    IN IF user = None THEN <<>> ELSE RoleNamesOf(users[user].role_ids, 1)

(* ------------------------------------------------------------------ *)
(* Record of the last completed call                                  *)
(* ------------------------------------------------------------------ *)
\* No group stored, no call in flight.
NoGroups == [g \in {} |-> None]

NoCalls == [p \in {} |-> None]

Call(kind, args, user, verified, error, result) ==
    [kind |-> kind, args |-> args, user |-> user, verified |-> verified,
     error |-> error, result |-> result]

(* ------------------------------------------------------------------ *)
(* Initial state                                                      *)
(* ------------------------------------------------------------------ *)
NewRole(name, permission_ids) ==
    [name |-> name, permission_ids |-> permission_ids,
     is_system_role |-> FALSE, is_active |-> TRUE, is_deleted |-> FALSE]

NewPermission(name) == [name |-> name]

InitStores ==
    /\ users = [u \in {"u1"} |-> NewUser("alice", "alice@x.io", "secret")]
    /\ roles = [r \in RoleIds |-> NewRole(RoleNameOf[r], <<"p1">>)]
    /\ permissions = [p \in PermIds |-> NewPermission(PermNameOf[p])]

Init ==
    /\ InitStores
    /\ now = 0
    /\ failures = [u \in UserIds |-> 0]
    /\ issued = {}
    /\ groups = NoGroups
    /\ calls = NoCalls
    /\ op = Call("init", <<>>, None, FALSE, NoError, None)

(* ------------------------------------------------------------------ *)
(* AuthenticationService.authenticate_user                            *)
(* ------------------------------------------------------------------ *)
AuthenticateUser(identifier, password) ==
    LET args == <<identifier, password>>
        user == FindUserByIdentifier(identifier)
    IN
    /\ UNCHANGED <<roles, permissions, groups, calls, issued, now>>
    /\ IF identifier = "" \/ password = ""
       THEN /\ op' = Call("authenticate_user", args, None, FALSE,
                          ValidationErrorRequired, None)
            /\ UNCHANGED <<users, failures>>
       ELSE IF user = None
       THEN /\ op' = Call("authenticate_user", args, None, FALSE,
                          AuthErrorInvalidCredentials, None)
            /\ UNCHANGED <<users, failures>>
       ELSE IF CheckAccountStatus(users[user], now) # NoError
       THEN /\ op' = Call("authenticate_user", args, user, FALSE,
                          CheckAccountStatus(users[user], now), None)
            /\ UNCHANGED <<users, failures>>
       ELSE IF ~VerifyPassword(password, users[user].hashed_password)
       THEN /\ users[user].failed_login_attempts < MaxCount
            /\ users' = Update(user, HandleFailedLogin(users[user], now))
            /\ failures' = [failures EXCEPT ![user] = @ + 1]
            /\ op' = Call("authenticate_user", args, user, TRUE,
                          AuthErrorInvalidCredentials, None)
       ELSE /\ users' = Update(user, HandleSuccessfulLogin(users[user]))
            /\ failures' = [failures EXCEPT ![user] = 0]
            /\ op' = Call("authenticate_user", args, user, TRUE,
                          NoError, user)

(* ------------------------------------------------------------------ *)
(* UsernamePasswordAuthStrategy.authenticate                          *)
(* ------------------------------------------------------------------ *)
StrategyAuthenticate(username, email, password) ==
    LET args == <<username, email, password>>
        identifier == IF username # "" THEN username ELSE email
        user == GetByEmailOrUsername(identifier)
    IN
    /\ UNCHANGED <<roles, permissions, groups, calls, issued, now>>
    /\ IF identifier = "" \/ password = ""
       THEN /\ op' = Call("strategy_authenticate", args, None, FALSE,
                          AuthErrorRequired, None)
            /\ UNCHANGED <<users, failures>>
       ELSE IF user = None
       THEN /\ op' = Call("strategy_authenticate", args, None, FALSE,
                          AuthErrorInvalidCredentials, None)
            /\ UNCHANGED <<users, failures>>
       ELSE IF IsLocked(users[user], now)
       THEN /\ op' = Call("strategy_authenticate", args, user, FALSE,
                          AuthErrorLockedStrategy, None)
            /\ UNCHANGED <<users, failures>>
       ELSE IF ~VerifyPassword(password, users[user].hashed_password)
       THEN /\ users[user].login_attempts < MaxCount
            /\ users' = Update(user, IncrementLoginAttempts(users[user], now))
            /\ failures' = [failures EXCEPT ![user] = @ + 1]
            /\ op' = Call("strategy_authenticate", args, user, TRUE,
                          AuthErrorInvalidCredentials, None)
       ELSE /\ users' = Update(user, ResetLoginAttempts(users[user]))
            /\ failures' = [failures EXCEPT ![user] = 0]
            /\ op' = Call("strategy_authenticate", args, user, TRUE,
                          NoError, user)

(* ------------------------------------------------------------------ *)
(* EmailAuthStrategy.authenticate                                     *)
(* ------------------------------------------------------------------ *)
MagicTokens ==
    {NoToken, MalformedToken,
     JwtEncode(Claims(None, "alice@x.io", MaxTime + 1, "magic"), SECRET_KEY),
     JwtEncode(Claims(None, "bob@x.io", MaxTime + 1, "magic"), SECRET_KEY),
     JwtEncode(Claims(None, "alice@x.io", 20, "magic"), SECRET_KEY)}

EmailAuthenticate(email, magic_token) ==
    LET args == <<email, magic_token>>
        user == GetByEmail(email)
        decoded == DecodeToken(magic_token, now)
        error == IF email = "" THEN AuthErrorEmailRequired
                 ELSE IF user = None THEN AuthErrorUserNotFound
                 ELSE IF magic_token.kind # "none"
                 THEN IF decoded.error # NoError THEN AuthErrorInvalidMagic
                      ELSE IF decoded.payload.email # email
                           THEN AuthErrorInvalidMagic
                           ELSE NoError
                 ELSE NoError
    IN
    /\ op' = Call("email_authenticate", args,
                  IF email = "" THEN None ELSE user, FALSE, error,
                  IF error = NoError THEN user ELSE None)
    /\ UNCHANGED <<users, roles, permissions, groups, calls, issued, now,
                   failures>>

(* ------------------------------------------------------------------ *)
(* AuthenticationService.reset_failed_attempts                        *)
(* ------------------------------------------------------------------ *)
ResetFailedAttempts(user_id) ==
    /\ users' = Update(user_id, [failed_login_attempts |-> 0,
                                 locked_until |-> NoneTime])
    /\ failures' = [failures EXCEPT ![user_id] = 0]
    /\ op' = Call("reset_failed_attempts", <<user_id>>, GetById(user_id),
                  FALSE, NoError, GetById(user_id) # None)
    /\ UNCHANGED <<roles, permissions, groups, calls, issued, now>>

(* ------------------------------------------------------------------ *)
(* UserService.deactivate_user / activate_user                        *)
(* ------------------------------------------------------------------ *)
UpdateUserActive(kind, user_id, active) ==
    /\ IF GetById(user_id) = None
       THEN /\ op' = Call(kind, <<user_id>>, None, FALSE,
                          NotFoundErrorUser, None)
            /\ UNCHANGED users
       ELSE /\ users' = Update(user_id, [is_active |-> active])
            /\ op' = Call(kind, <<user_id>>, user_id, FALSE, NoError, user_id)
    /\ UNCHANGED <<roles, permissions, groups, calls, issued, now, failures>>

DeactivateUser(user_id) == UpdateUserActive("deactivate_user", user_id, FALSE)

ActivateUser(user_id) == UpdateUserActive("activate_user", user_id, TRUE)

(* ------------------------------------------------------------------ *)
(* Passage of time (datetime.now advances between calls)              *)
(* ------------------------------------------------------------------ *)
Tick(d) ==
    /\ now + d <= MaxTime
    /\ now' = now + d
    /\ op' = Call("tick", <<d>>, None, FALSE, NoError, None)
    /\ UNCHANGED <<users, roles, permissions, groups, calls, issued, failures>>

ServiceCredentials ==
    (Identifiers \X Passwords) \cup {<<"", "secret">>, <<"alice", "">>}

StrategyCredentials ==
    ({<<"alice", "">>, <<"nobody", "">>, <<"", "alice@x.io">>,
      <<"nobody", "alice@x.io">>} \X Passwords)
    \cup {<<<<"", "">>, "secret">>, <<<<"alice", "">>, "">>}

EmailCredentials ==
    ({"alice@x.io"} \X MagicTokens) \cup ({"bob@x.io", ""} \X {NoToken})

Next ==
    \/ \E credentials \in ServiceCredentials :
          AuthenticateUser(credentials[1], credentials[2])
    \/ \E credentials \in StrategyCredentials :
          StrategyAuthenticate(credentials[1][1], credentials[1][2],
                               credentials[2])
    \/ \E credentials \in EmailCredentials :
          EmailAuthenticate(credentials[1], credentials[2])
    \/ \E user_id \in UserIds : ResetFailedAttempts(user_id)
    \/ \E user_id \in UserIds : DeactivateUser(user_id)
    \/ \E user_id \in UserIds : ActivateUser(user_id)
    \/ \E d \in TickSteps : Tick(d)

Spec == Init /\ [][Next]_vars

(* ------------------------------------------------------------------ *)
(* Authorization queries over drawn user / role / permission stores   *)
(* ------------------------------------------------------------------ *)
IdLists(S) == UNION {[1..n -> S] : n \in 0..2}

DistinctIdLists(S) == {l \in IdLists(S) : \A i, j \in DOMAIN l : l[i] = l[j] => i = j}

SortedLists(order) ==
    {l \in UNION {[1..n -> ToSet(order)] : n \in 0..Len(order)} :
        \A i, j \in DOMAIN l :
            i < j => \E a, b \in 1..Len(order) :
                        a < b /\ order[a] = l[i] /\ order[b] = l[j]}

NameLists == UNION {[1..n -> PermNames] : n \in 0..MaxNames}

InitAuthz ==
    /\ \E su \in BOOLEAN, rs \in DistinctIdLists(RoleIds), ps \in IdLists(PermIds) :
          users = [u \in {"u1"} |->
                     [NewUser("alice", "alice@x.io", "secret")
                        EXCEPT !.is_superuser = su,
                               !.role_ids = rs,
                               !.permission_ids = ps]]
    /\ \E stored \in SUBSET RoleIds :
          \E pl \in [stored -> SortedLists(PermOrder)] :
             roles = [r \in stored |-> NewRole(RoleNameOf[r], pl[r])]
    /\ \E stored \in {{"p1"}, PermIds} :
          permissions = [p \in stored |-> NewPermission(PermNameOf[p])]
    /\ now = 0
    /\ failures = [u \in UserIds |-> 0]
    /\ issued = {}
    /\ groups = NoGroups
    /\ calls = NoCalls
    /\ op = Call("init", <<>>, None, FALSE, NoError, None)

Query(kind, args, user, result) ==
    /\ op' = Call(kind, args, user, FALSE, NoError, result)
    /\ UNCHANGED <<users, roles, permissions, groups, calls, issued, now,
                   failures>>

QueryHasPermission(u, name) ==
    Query("has_permission", <<u, name>>, u, HasPermission(users[u], name))

QueryHasRole(u, name) ==
    Query("has_role", <<u, name>>, u, HasRole(users[u], name))

QueryHasAnyPermission(u, names) ==
    Query("has_any_permission", <<u, names>>, u, HasAnyPermission(users[u], names))

QueryHasAllPermissions(u, names) ==
    Query("has_all_permissions", <<u, names>>, u, HasAllPermissions(users[u], names))

QueryGetUserPermissions(user_id) ==
    \E result \in GetUserPermissionsResults(user_id) :
        Query("get_user_permissions", <<user_id>>, GetById(user_id), result)

QueryGetUserRoles(user_id) ==
    Query("get_user_roles", <<user_id>>, GetById(user_id), GetUserRoles(user_id))

NextAuthz ==
    \/ \E u \in DOMAIN users, name \in PermNames : QueryHasPermission(u, name)
    \/ \E u \in DOMAIN users, name \in RoleNames : QueryHasRole(u, name)
    \/ \E u \in DOMAIN users, names \in NameLists : QueryHasAnyPermission(u, names)
    \/ \E u \in DOMAIN users, names \in NameLists : QueryHasAllPermissions(u, names)
    \/ \E user_id \in UserIds : QueryGetUserPermissions(user_id)
    \/ \E user_id \in UserIds : QueryGetUserRoles(user_id)

SpecAuthz == InitAuthz /\ [][NextAuthz]_vars

(* ------------------------------------------------------------------ *)
(* Token paths of the strategy and of AuthenticationService           *)
(* ------------------------------------------------------------------ *)
AuthErrorValidationExpired ==
    "AuthenticationError: Token validation failed: Token has expired"
AuthErrorValidationInvalid ==
    "AuthenticationError: Token validation failed: Invalid token"
AuthErrorInvalidTokenType == "AuthenticationError: Invalid token type"
AuthErrorInvalidToken == "AuthenticationError: Invalid token"
AuthErrorNotFoundOrInactive == "AuthenticationError: User not found or inactive"
AuthErrorUserInactive == "AuthenticationError: User account is inactive"
AuthErrorInvalidRefresh == "AuthenticationError: Invalid or expired refresh token"
AuthErrorInvalidOrExpired == "AuthenticationError: Invalid or expired token"
AuthErrorCurrentPassword == "AuthenticationError: Current password is incorrect"
ValidationErrorPassword == "ValidationError: Invalid password"
DatabaseConnectionErrorRetrieve == "DatabaseConnectionError: Failed to retrieve users"

AuthErrorNoContext == "AuthenticationError: GraphQL context not available"
AuthorizationErrorPermissions == "AuthorizationError: INSUFFICIENT_PERMISSIONS"
AuthorizationErrorRole == "AuthorizationError: INSUFFICIENT_ROLE"
Http401AuthenticationFailed == "HTTPException 401: Authentication failed"
Http403Required == "HTTPException 403: required"

AuthenticationErrors ==
    {AuthErrorNoContext, AuthErrorRequired, AuthErrorInvalidCredentials, AuthErrorInactive,
     AuthErrorLocked, AuthErrorLockedStrategy, AuthErrorEmailRequired,
     AuthErrorUserNotFound, AuthErrorInvalidMagic, AuthErrorValidationExpired,
     AuthErrorValidationInvalid, AuthErrorInvalidTokenType,
     AuthErrorInvalidToken, AuthErrorNotFoundOrInactive, AuthErrorUserInactive,
     AuthErrorInvalidRefresh, AuthErrorInvalidOrExpired,
     AuthErrorCurrentPassword}

\* ObjectId(record_id): "u1" and "u2" stand for well-formed 24-hex ids,
\* every other string is rejected by the ObjectId constructor.
IsObjectId(record_id) == record_id \in UserIds

Outcome(error, result) == [error |-> error, result |-> result]

ValidateToken_RejectsLocked(token, t) ==
    LET decoded == DecodeToken(token, t)
        user_id == DictGet(decoded.payload, "sub")
    IN IF decoded.error = TokenErrorExpired
       THEN Outcome(AuthErrorValidationExpired, None)
       ELSE IF decoded.error # NoError
       THEN Outcome(AuthErrorValidationInvalid, None)
       ELSE IF DictGet(decoded.payload, "type") # "access"
       THEN Outcome(AuthErrorInvalidTokenType, None)
       ELSE IF user_id \in {None, ""}
       THEN Outcome(AuthErrorInvalidToken, None)
       ELSE IF ~IsObjectId(user_id)
       THEN Outcome(DatabaseConnectionErrorRetrieve, None)
       ELSE IF GetById(user_id) = None \/ ~users[user_id].is_active
       THEN Outcome(AuthErrorNotFoundOrInactive, None)
       ELSE IF IsLocked(users[user_id], t)
       THEN Outcome(AuthErrorLocked, None)
       ELSE Outcome(NoError, user_id)

ValidateToken(token, t) ==
    LET decoded == DecodeToken(token, t)
        user_id == DictGet(decoded.payload, "sub")
    IN IF decoded.error = TokenErrorExpired
       THEN Outcome(AuthErrorValidationExpired, None)
       ELSE IF decoded.error # NoError
       THEN Outcome(AuthErrorValidationInvalid, None)
       ELSE IF DictGet(decoded.payload, "type") # "access"
       THEN Outcome(AuthErrorInvalidTokenType, None)
       ELSE IF user_id \in {None, ""}
       THEN Outcome(AuthErrorInvalidToken, None)
       ELSE IF ~IsObjectId(user_id)
       THEN Outcome(DatabaseConnectionErrorRetrieve, None)
       ELSE IF GetById(user_id) = None \/ ~users[user_id].is_active
       THEN Outcome(AuthErrorNotFoundOrInactive, None)
       ELSE Outcome(NoError, user_id)

TokenData(user_id) ==
    [sub |-> user_id, username |-> users[user_id].username,
     email |-> users[user_id].email,
     is_superuser |-> users[user_id].is_superuser]

GenerateTokens(user_id, t) ==
    [access_token |-> CreateAccessToken(TokenData(user_id), t),
     refresh_token |-> CreateRefreshToken(TokenData(user_id), t),
     token_type |-> "bearer",
     expires_in |-> ACCESS_TOKEN_EXPIRE_MINUTES * 60]

RefreshAccessToken_IgnoresActive(refresh_token, t) ==
    LET decoded == DecodeToken(refresh_token, t)
        user_id == DictGet(decoded.payload, "sub")
    IN IF decoded.error # NoError
       THEN Outcome(AuthErrorInvalidRefresh, None)
       ELSE IF DictGet(decoded.payload, "type") # "refresh"
       THEN Outcome(AuthErrorInvalidTokenType, None)
       ELSE IF ~IsObjectId(user_id) \/ GetById(user_id) = None
       THEN Outcome(AuthErrorInvalidRefresh, None)
       ELSE Outcome(NoError,
                    [access_token |-> CreateAccessToken(TokenData(user_id), t),
                     token_type |-> "bearer",
                     expires_in |-> ACCESS_TOKEN_EXPIRE_MINUTES * 60])

RefreshAccessToken(refresh_token, t) ==
    LET decoded == DecodeToken(refresh_token, t)
        user_id == DictGet(decoded.payload, "sub")
    IN IF decoded.error # NoError
       THEN Outcome(AuthErrorInvalidRefresh, None)
       ELSE IF DictGet(decoded.payload, "type") # "refresh"
       THEN Outcome(AuthErrorInvalidTokenType, None)
       ELSE IF ~IsObjectId(user_id) \/ GetById(user_id) = None
       THEN Outcome(AuthErrorInvalidRefresh, None)
       ELSE IF ~users[user_id].is_active
       THEN Outcome(AuthErrorUserInactive, None)
       ELSE Outcome(NoError,
                    [access_token |-> CreateAccessToken(TokenData(user_id), t),
                     token_type |-> "bearer",
                     expires_in |-> ACCESS_TOKEN_EXPIRE_MINUTES * 60])

PasswordChars ==
    [p \in {"secret", "wrong", "weak", "N3w!Passw0rd"} |->
        IF p = "N3w!Passw0rd"
        THEN [length |-> 12, upper |-> TRUE, lower |-> TRUE, digit |-> TRUE,
              special |-> TRUE]
        ELSE [length |-> IF p = "secret" THEN 6 ELSE IF p = "wrong" THEN 5 ELSE 4,
              upper |-> FALSE, lower |-> TRUE, digit |-> FALSE,
              special |-> FALSE]]

ValidatePassword(password) ==
    /\ password # ""
    /\ PasswordChars[password].length >= 8
    /\ PasswordChars[password].upper
    /\ PasswordChars[password].lower
    /\ PasswordChars[password].digit
    /\ PasswordChars[password].special

SetPasswordWithTokenOutcome_AnyType(token, new_password, t) ==
    LET decoded == DecodeToken(token, t)
        user_id == DictGet(decoded.payload, "sub")
    IN IF decoded.error # NoError
       THEN Outcome(AuthErrorInvalidOrExpired, None)
       ELSE IF user_id = ""
       THEN Outcome(AuthErrorInvalidToken, None)
       ELSE IF ~ValidatePassword(new_password)
       THEN Outcome(ValidationErrorPassword, None)
       ELSE IF ~IsObjectId(user_id)
       THEN Outcome(AuthErrorInvalidOrExpired, None)
       ELSE Outcome(NoError, GetById(user_id) # None)

SetPasswordWithTokenOutcome(token, new_password, t) ==
    LET decoded == DecodeToken(token, t)
        user_id == DictGet(decoded.payload, "sub")
    IN IF decoded.error # NoError
       THEN Outcome(AuthErrorInvalidOrExpired, None)
       ELSE IF DictGet(decoded.payload, "type") # "set_password"
       THEN Outcome(AuthErrorInvalidTokenType, None)
       ELSE IF user_id = ""
       THEN Outcome(AuthErrorInvalidToken, None)
       ELSE IF ~ValidatePassword(new_password)
       THEN Outcome(ValidationErrorPassword, None)
       ELSE IF ~IsObjectId(user_id)
       THEN Outcome(AuthErrorInvalidOrExpired, None)
       ELSE Outcome(NoError, GetById(user_id) # None)

AuthenticateUserOutcome(identifier, password) ==
    LET user == FindUserByIdentifier(identifier)
    IN IF identifier = "" \/ password = ""
       THEN [error |-> ValidationErrorRequired, user |-> None, verified |-> FALSE]
       ELSE IF user = None
       THEN [error |-> AuthErrorInvalidCredentials, user |-> None,
             verified |-> FALSE]
       ELSE IF CheckAccountStatus(users[user], now) # NoError
       THEN [error |-> CheckAccountStatus(users[user], now), user |-> user,
             verified |-> FALSE]
       ELSE IF ~VerifyPassword(password, users[user].hashed_password)
       THEN [error |-> AuthErrorInvalidCredentials, user |-> user,
             verified |-> TRUE]
       ELSE [error |-> NoError, user |-> user, verified |-> TRUE]

(* ------------------------------------------------------------------ *)
(* AuthenticationService.login                                        *)
(* ------------------------------------------------------------------ *)
Login(identifier, password) ==
    LET outcome == AuthenticateUserOutcome(identifier, password)
        user == outcome.user
    IN
    /\ UNCHANGED <<roles, permissions, groups, calls, now>>
    /\ IF ~outcome.verified
       THEN /\ op' = Call("login", <<identifier, password>>, user, FALSE,
                          outcome.error, None)
            /\ UNCHANGED <<users, failures, issued>>
       ELSE IF outcome.error # NoError
       THEN /\ users[user].failed_login_attempts < MaxCount
            /\ users' = Update(user, HandleFailedLogin(users[user], now))
            /\ failures' = [failures EXCEPT ![user] = @ + 1]
            /\ op' = Call("login", <<identifier, password>>, user, TRUE,
                          outcome.error, None)
            /\ UNCHANGED issued
       ELSE /\ users' = Update(user, HandleSuccessfulLogin(users[user]))
            /\ failures' = [failures EXCEPT ![user] = 0]
            /\ issued' = issued \cup {GenerateTokens(user, now).access_token,
                                      GenerateTokens(user, now).refresh_token}
            /\ Cardinality(issued') <= MaxIssued
            /\ op' = Call("login", <<identifier, password>>, user, TRUE,
                          NoError, GenerateTokens(user, now))

(* ------------------------------------------------------------------ *)
(* UsernamePasswordAuthStrategy.validate_token                        *)
(* ------------------------------------------------------------------ *)
ValidateTokenCall(token) ==
    /\ op' = Call("validate_token", <<token>>, ValidateToken(token, now).result,
                  FALSE, ValidateToken(token, now).error,
                  ValidateToken(token, now).result)
    /\ UNCHANGED <<users, roles, permissions, groups, calls, now, failures,
                   issued>>

(* ------------------------------------------------------------------ *)
(* AuthenticationService.refresh_access_token                         *)
(* ------------------------------------------------------------------ *)
RefreshAccessTokenCall(refresh_token) ==
    LET outcome == RefreshAccessToken(refresh_token, now)
    IN
    /\ op' = Call("refresh_access_token", <<refresh_token>>, None, FALSE,
                  outcome.error, outcome.result)
    /\ IF outcome.error = NoError
       THEN /\ issued' = issued \cup {outcome.result.access_token}
            /\ Cardinality(issued') <= MaxIssued
       ELSE UNCHANGED issued
    /\ UNCHANGED <<users, roles, permissions, groups, calls, now, failures>>

(* ------------------------------------------------------------------ *)
(* AuthenticationService.set_password_with_token                      *)
(* ------------------------------------------------------------------ *)
SetPasswordWithToken(token, new_password) ==
    LET outcome == SetPasswordWithTokenOutcome(token, new_password, now)
        user_id == DictGet(DecodeToken(token, now).payload, "sub")
    IN
    /\ op' = Call("set_password_with_token", <<token, new_password>>,
                  None, FALSE, outcome.error, outcome.result)
    /\ IF outcome.error = NoError /\ outcome.result = TRUE
       THEN users' = Update(user_id,
                       [hashed_password |-> HashPassword(new_password, 1)])
       ELSE UNCHANGED users
    /\ UNCHANGED <<roles, permissions, groups, calls, now, failures, issued>>

(* ------------------------------------------------------------------ *)
(* AuthenticationService.change_password                              *)
(* ------------------------------------------------------------------ *)
ChangePassword(user_id, current_password, new_password) ==
    LET args == <<user_id, current_password, new_password>>
        error == IF ~IsObjectId(user_id) THEN DatabaseConnectionErrorRetrieve
                 ELSE IF GetById(user_id) = None THEN NotFoundErrorUser
                 ELSE IF ~VerifyPassword(current_password,
                                         users[user_id].hashed_password)
                 THEN AuthErrorCurrentPassword
                 ELSE IF ~ValidatePassword(new_password)
                 THEN ValidationErrorPassword
                 ELSE NoError
    IN
    /\ op' = Call("change_password", args, None, FALSE, error,
                  IF error = NoError THEN TRUE ELSE None)
    /\ IF error = NoError
       THEN users' = Update(user_id,
                       [hashed_password |-> HashPassword(new_password, 1)])
       ELSE UNCHANGED users
    /\ UNCHANGED <<roles, permissions, groups, calls, now, failures, issued>>

(* ------------------------------------------------------------------ *)
(* UserMutations.send_onboarding_email (issues a set_password token)  *)
(* ------------------------------------------------------------------ *)
SendOnboardingEmail(user_id) ==
    /\ IF GetById(user_id) = None
       THEN /\ op' = Call("send_onboarding_email", <<user_id>>, None, FALSE,
                          NoError, FALSE)
            /\ UNCHANGED issued
       ELSE LET token == CreateSetPasswordToken(
                            [sub |-> user_id, email |-> users[user_id].email],
                            now)
            IN /\ issued' = issued \cup {token}
               /\ Cardinality(issued') <= MaxIssued
               /\ op' = Call("send_onboarding_email", <<user_id>>, user_id,
                             FALSE, NoError, token)
    /\ UNCHANGED <<users, roles, permissions, groups, calls, now, failures>>

(* ------------------------------------------------------------------ *)
(* UserService.update_user({"is_superuser": flag})                    *)
(* ------------------------------------------------------------------ *)
UpdateUserSuperuser(user_id, flag) ==
    /\ IF GetById(user_id) = None
       THEN /\ op' = Call("update_user", <<user_id, flag>>, None, FALSE,
                          NotFoundErrorUser, None)
            /\ UNCHANGED users
       ELSE /\ users' = Update(user_id, [is_superuser |-> flag])
            /\ op' = Call("update_user", <<user_id, flag>>, user_id, FALSE,
                          NoError, user_id)
    /\ UNCHANGED <<roles, permissions, groups, calls, now, failures, issued>>

PresentedTokens ==
    {MalformedToken,
     JwtEncode(Claims("u1", "alice@x.io", MaxTime + 1, "access"), "attacker-key"),
     JwtEncode(Claims("u1", "alice@x.io", 20, "access"), SECRET_KEY),
     JwtEncode(Claims("u1", "alice@x.io", 20, "refresh"), SECRET_KEY),
     JwtEncode(Claims("u1", "alice@x.io", MaxTime + 1, "set_password"), SECRET_KEY),
     JwtEncode(Claims(None, "alice@x.io", MaxTime + 1, "access"), SECRET_KEY),
     JwtEncode(Claims("user123", "alice@x.io", MaxTime + 1, "access"), SECRET_KEY),
     JwtEncode(Claims("u2", "bob@x.io", MaxTime + 1, "access"), SECRET_KEY),
     JwtEncode(Claims("u2", "bob@x.io", MaxTime + 1, "refresh"), SECRET_KEY),
     JwtEncode([sub |-> "u1", exp |-> MaxTime + 1], SECRET_KEY)}

LoginCredentials ==
    {<<"alice", "secret">>, <<"alice", "wrong">>, <<"nobody", "secret">>}

NewPasswords == {"N3w!Passw0rd", "weak"}

\* Every token with a valid password; the rejected password with the
\* tokens of the set_password type, the only ones whose password is read.
SetPasswordInputs ==
    ((issued \cup PresentedTokens) \X {"N3w!Passw0rd"})
    \cup ({token \in issued \cup PresentedTokens :
              DictGet(token.payload, "type") = "set_password"} \X {"weak"})

InitTokens ==
    /\ users = [u \in {"u1"} |->
                  [NewUser("alice", "alice@x.io", "secret")
                     EXCEPT !.failed_login_attempts = MAX_LOGIN_ATTEMPTS - 1]]
    /\ failures = [u \in UserIds |->
                     IF u = "u1" THEN MAX_LOGIN_ATTEMPTS - 1 ELSE 0]
    /\ roles = [r \in RoleIds |-> NewRole(RoleNameOf[r], <<"p1">>)]
    /\ permissions = [p \in PermIds |-> NewPermission(PermNameOf[p])]
    /\ now = 0
    /\ issued = {}
    /\ groups = NoGroups
    /\ calls = NoCalls
    /\ op = Call("init", <<>>, None, FALSE, NoError, None)

NextTokens ==
    \/ \E credentials \in LoginCredentials :
          Login(credentials[1], credentials[2])
    \/ \E token \in issued \cup PresentedTokens : ValidateTokenCall(token)
    \/ \E token \in issued \cup PresentedTokens : RefreshAccessTokenCall(token)
    \/ \E input \in SetPasswordInputs :
          SetPasswordWithToken(input[1], input[2])
    \/ \E current_password \in {"secret", "wrong"},
          new_password \in NewPasswords :
          ChangePassword("u1", current_password, new_password)
    \/ SendOnboardingEmail("u1")
    \/ \E flag \in BOOLEAN : UpdateUserSuperuser("u1", flag)
    \/ DeactivateUser("u1")
    \/ ActivateUser("u1")
    \/ Tick(LOCKOUT_DURATION_MINUTES)

SpecTokens == InitTokens /\ [][NextTokens]_vars

(* ------------------------------------------------------------------ *)
(* GraphQLContext: principal resolution at the request boundary       *)
(* ------------------------------------------------------------------ *)
\* An Authorization header "<scheme><spaces spaces><credentials>".
Header(scheme, spaces, credentials) ==
    [present |-> TRUE, scheme |-> scheme, spaces |-> spaces,
     credentials |-> credentials]

NoHeader ==
    [present |-> FALSE, scheme |-> "", spaces |-> 0, credentials |-> NoToken]

StartsWithBearer(header) ==
    header.present /\ header.scheme = "Bearer" /\ header.spaces >= 1

\* auth_header.split(" ")[1]: the credentials after a single space, the
\* empty string (which does not decode) after more than one.
SplitToken(header) ==
    IF header.spaces = 1 THEN header.credentials ELSE MalformedToken

GetCurrentUser_PropagatesError(header, t) ==
    IF ~StartsWithBearer(header) THEN Outcome(NoError, None)
    ELSE ValidateToken(SplitToken(header), t)

GetCurrentUser(header, t) ==
    IF ~StartsWithBearer(header) THEN Outcome(NoError, None)
    ELSE IF ValidateToken(SplitToken(header), t).error # NoError
         THEN Outcome(NoError, None)
         ELSE Outcome(NoError, ValidateToken(SplitToken(header), t).result)

ContextHasPermission(header, permission, t) ==
    LET user == GetCurrentUser(header, t).result
    IN IF user = None THEN FALSE ELSE HasPermission(users[user], permission)

ContextHasRole(header, role, t) ==
    LET user == GetCurrentUser(header, t).result
    IN IF user = None THEN FALSE ELSE HasRole(users[user], role)

RECURSIVE ContextHasAnyPermission(_, _, _, _)
ContextHasAnyPermission(header, names, i, t) ==
    IF i > Len(names) THEN FALSE
    ELSE IF ContextHasPermission(header, names[i], t) THEN TRUE
    ELSE ContextHasAnyPermission(header, names, i + 1, t)

RECURSIVE ContextHasAllPermissions(_, _, _, _)
ContextHasAllPermissions(header, names, i, t) ==
    IF i > Len(names) THEN TRUE
    ELSE IF ~ContextHasPermission(header, names[i], t) THEN FALSE
    ELSE ContextHasAllPermissions(header, names, i + 1, t)

GetCurrentUserCall(header) ==
    /\ op' = Call("get_current_user", <<header>>,
                  GetCurrentUser(header, now).result, FALSE,
                  GetCurrentUser(header, now).error,
                  GetCurrentUser(header, now).result)
    /\ UNCHANGED <<users, roles, permissions, groups, calls, now, failures,
                   issued>>

(* ------------------------------------------------------------------ *)
(* graphql/auth.py decorators and SecurityManager dependencies        *)
(* ------------------------------------------------------------------ *)
GateKinds ==
    {"require_permission", "require_role", "require_any_permission",
     "require_all_permissions"}

RequiredNames(kind, required) ==
    IF kind \in {"require_permission", "require_role"}
    THEN <<required>> ELSE required

ContextPredicate(kind, header, required, t) ==
    CASE kind = "require_permission" ->
            ContextHasPermission(header, required, t)
      [] kind = "require_role" -> ContextHasRole(header, required, t)
      [] kind = "require_any_permission" ->
            ContextHasAnyPermission(header, required, 1, t)
      [] kind = "require_all_permissions" ->
            ContextHasAllPermissions(header, required, 1, t)

ServicePredicate(kind, user, required) ==
    CASE kind = "require_permission" -> HasPermission(user, required)
      [] kind = "require_role" -> HasRole(user, required)
      [] kind = "require_any_permission" ->
            HasAnyPermission(user, required).result
      [] kind = "require_all_permissions" ->
            HasAllPermissions(user, required).result

GateResult(ran, kind, required) ==
    [ran |-> ran, required |-> RequiredNames(kind, required)]

\* wrapper of the graphql/auth.py decorator of the given kind
GraphQLGate(kind, has_info, header, required) ==
    LET user == GetCurrentUser(header, now).result
        error == IF ~has_info THEN AuthErrorNoContext
                 ELSE IF ~ContextPredicate(kind, header, required, now)
                 THEN IF kind = "require_role" THEN AuthorizationErrorRole
                      ELSE AuthorizationErrorPermissions
                 ELSE NoError
    IN
    /\ op' = Call(kind, <<"graphql", has_info, header, required>>,
                  IF has_info THEN user ELSE None, FALSE, error,
                  GateResult(error = NoError, kind, required))
    /\ UNCHANGED <<users, roles, permissions, groups, calls, now, failures,
                   issued>>

\* dependency returned by the SecurityManager method of the given kind,
\* on top of SecurityManager.get_current_user
SecurityManagerGate(kind, token, required) ==
    LET validated == ValidateToken(token, now)
        user == validated.result
        error == IF validated.error # NoError THEN Http401AuthenticationFailed
                 ELSE IF ~ServicePredicate(kind, users[user], required)
                 THEN Http403Required
                 ELSE NoError
    IN
    /\ op' = Call(kind, <<"security_manager", TRUE, token, required>>,
                  user, FALSE, error,
                  GateResult(error = NoError, kind, required))
    /\ UNCHANGED <<users, roles, permissions, groups, calls, now, failures,
                   issued>>

ValidAccessToken ==
    JwtEncode(Claims("u1", "alice@x.io", MaxTime + 1, "access"), SECRET_KEY)

BoundaryTokens ==
    {ValidAccessToken, MalformedToken,
     JwtEncode(Claims("u1", "alice@x.io", MaxTime + 1, "access"), "attacker-key"),
     JwtEncode(Claims("u1", "alice@x.io", 20, "access"), SECRET_KEY),
     JwtEncode(Claims("u1", "alice@x.io", MaxTime + 1, "refresh"), SECRET_KEY),
     JwtEncode(Claims(None, "alice@x.io", MaxTime + 1, "access"), SECRET_KEY),
     JwtEncode(Claims("user123", "alice@x.io", MaxTime + 1, "access"), SECRET_KEY),
     JwtEncode(Claims("u2", "bob@x.io", MaxTime + 1, "access"), SECRET_KEY)}

Headers ==
    {NoHeader, Header("Basic", 1, ValidAccessToken),
     Header("Bearer", 0, ValidAccessToken),
     Header("Bearer", 2, ValidAccessToken)}
    \cup {Header("Bearer", 1, token) : token \in BoundaryTokens}

GateHeaders ==
    {NoHeader, Header("Bearer", 1, ValidAccessToken),
     Header("Bearer", 1, MalformedToken)}

GateTokens ==
    {ValidAccessToken, MalformedToken,
     JwtEncode(Claims("u1", "alice@x.io", 20, "access"), SECRET_KEY)}

GateRequirements(kind) ==
    CASE kind = "require_permission" -> PermNames
      [] kind = "require_role" -> {"admin", "guest"}
      [] OTHER -> NameLists

InitBoundary ==
    /\ \E active \in BOOLEAN, su \in BOOLEAN,
          rs \in {<<>>, <<"r1">>}, ps \in {<<>>, <<"p2">>} :
          users = [u \in {"u1"} |->
                     [NewUser("alice", "alice@x.io", "secret")
                        EXCEPT !.is_active = active,
                               !.is_superuser = su,
                               !.role_ids = rs,
                               !.permission_ids = ps]]
    /\ roles = [r \in RoleIds |-> NewRole(RoleNameOf[r], <<"p1">>)]
    /\ permissions = [p \in PermIds |-> NewPermission(PermNameOf[p])]
    /\ now = 0
    /\ failures = [u \in UserIds |-> 0]
    /\ issued = {}
    /\ groups = NoGroups
    /\ calls = NoCalls
    /\ op = Call("init", <<>>, None, FALSE, NoError, None)

NextBoundary ==
    \/ \E header \in Headers : GetCurrentUserCall(header)
    \/ \E kind \in GateKinds, has_info \in BOOLEAN, header \in GateHeaders :
          \E required \in GateRequirements(kind) :
             GraphQLGate(kind, has_info, header, required)
    \/ \E kind \in GateKinds, token \in GateTokens :
          \E required \in GateRequirements(kind) :
             SecurityManagerGate(kind, token, required)
    \/ \E d \in TickSteps : Tick(d)

SpecBoundary == InitBoundary /\ [][NextBoundary]_vars

(* ------------------------------------------------------------------ *)
(* Token manager calls over drawn claims maps                         *)
(* ------------------------------------------------------------------ *)
ClaimKeys == {"sub", "email", "type", "exp"}

FullClaims ==
    [sub : {"u1"}, email : {"alice@x.io"}, type : {"refresh"}, exp : {5}]

ClaimsMaps ==
    {[k \in K |-> full[k]] : full \in FullClaims, K \in SUBSET ClaimKeys}

ActionMinutes == {15, 60}
ActionTypes == {"set_password", "magic"}

WronglySignedTokens ==
    {JwtEncode(Claims("u1", "alice@x.io", MaxTime + 1, "access"), "attacker-key"),
     JwtEncode(Claims("u1", "alice@x.io", 10, "access"), "attacker-key")}

CreateTokenCall(kind, args, token) ==
    /\ Cardinality(issued) < MaxHeld
    /\ issued' = issued \cup {token}
    /\ op' = Call(kind, args, None, FALSE, NoError, token)
    /\ UNCHANGED <<users, roles, permissions, groups, calls, now, failures>>

CreateAccessTokenCall(data) ==
    CreateTokenCall("create_access_token", <<data>>,
                    CreateAccessToken(data, now))

CreateRefreshTokenCall(data) ==
    CreateTokenCall("create_refresh_token", <<data>>,
                    CreateRefreshToken(data, now))

CreateActionTokenCall(data, minutes, token_type) ==
    CreateTokenCall("create_action_token", <<data, minutes, token_type>>,
                    CreateActionToken(data, minutes, token_type, now))

DecodeTokenCall(token) ==
    /\ op' = Call("decode_token", <<token>>, None, FALSE,
                  DecodeToken(token, now).error,
                  DecodeToken(token, now).payload)
    /\ UNCHANGED <<users, roles, permissions, groups, calls, now, failures,
                   issued>>

NextCodec ==
    \/ \E data \in ClaimsMaps : CreateAccessTokenCall(data)
    \/ \E data \in ClaimsMaps : CreateRefreshTokenCall(data)
    \/ \E data \in ClaimsMaps, minutes \in ActionMinutes,
          token_type \in ActionTypes :
          CreateActionTokenCall(data, minutes, token_type)
    \/ \E token \in issued \cup WronglySignedTokens \cup {MalformedToken} :
          DecodeTokenCall(token)
    \/ \E d \in TickSteps : Tick(d)

SpecCodec == Init /\ [][NextCodec]_vars

(* ------------------------------------------------------------------ *)
(* Group model: membership                                            *)
(* ------------------------------------------------------------------ *)
ValueErrorCapacity == "ValueError: Group has reached maximum capacity"

MemberIds == {"u1", "u2", "u3"}

\* max_members = None (no limit)
NoMaxMembers == -1

NewGroup(member_ids, max_members) ==
    [member_ids |-> member_ids, max_members |-> max_members]

\* list.remove(x): drops the first occurrence of x
RECURSIVE ListRemove(_, _)
ListRemove(list, x) ==
    IF list = <<>> THEN <<>>
    ELSE IF Head(list) = x THEN Tail(list)
    ELSE <<Head(list)>> \o ListRemove(Tail(list), x)

\* truth value of "self.max_members" in a condition
Truthy(max_members) == max_members # NoMaxMembers /\ max_members # 0

CanAddMember(group) ==
    IF group.max_members = NoMaxMembers THEN TRUE
    ELSE Len(group.member_ids) < group.max_members

GroupAddMember_CapacityFirst(group, user_id) ==
    IF Truthy(group.max_members)
       /\ Len(group.member_ids) >= group.max_members
    THEN [group |-> group, error |-> ValueErrorCapacity, result |-> None]
    ELSE IF In(user_id, group.member_ids)
    THEN [group |-> group, error |-> NoError, result |-> FALSE]
    ELSE [group |-> [group EXCEPT !.member_ids = Append(@, user_id)],
          error |-> NoError, result |-> TRUE]

GroupAddMember(group, user_id) ==
    IF In(user_id, group.member_ids)
    THEN [group |-> group, error |-> NoError, result |-> FALSE]
    ELSE IF Truthy(group.max_members)
            /\ Len(group.member_ids) >= group.max_members
    THEN [group |-> group, error |-> ValueErrorCapacity, result |-> None]
    ELSE [group |-> [group EXCEPT !.member_ids = Append(@, user_id)],
          error |-> NoError, result |-> TRUE]

GroupRemoveMember(group, user_id) ==
    IF ~In(user_id, group.member_ids)
    THEN [group |-> group, error |-> NoError, result |-> FALSE]
    ELSE [group |-> [group EXCEPT !.member_ids = ListRemove(@, user_id)],
          error |-> NoError, result |-> TRUE]

AddMember(group_id, user_id) ==
    LET outcome == GroupAddMember(groups[group_id], user_id)
    IN /\ groups' = [groups EXCEPT ![group_id] = outcome.group]
       /\ op' = Call("add_member", <<group_id, user_id>>, None, FALSE,
                     outcome.error, outcome.result)
       /\ UNCHANGED <<users, roles, permissions, calls, now, failures, issued>>

RemoveMember(group_id, user_id) ==
    LET outcome == GroupRemoveMember(groups[group_id], user_id)
    IN /\ groups' = [groups EXCEPT ![group_id] = outcome.group]
       /\ op' = Call("remove_member", <<group_id, user_id>>, None, FALSE,
                     outcome.error, outcome.result)
       /\ UNCHANGED <<users, roles, permissions, calls, now, failures, issued>>

MemberLists ==
    {l \in UNION {[1..n -> MemberIds] : n \in 0..Cardinality(MemberIds)} :
        \A i, j \in DOMAIN l : l[i] = l[j] => i = j}

InitGroup ==
    /\ InitStores
    /\ \E member_ids \in MemberLists,
          max_members \in {NoMaxMembers} \cup (1..MaxMembers) :
          /\ max_members # NoMaxMembers => Len(member_ids) <= max_members
          /\ groups = [g \in {"g1"} |-> NewGroup(member_ids, max_members)]
    /\ calls = NoCalls
    /\ now = 0
    /\ failures = [u \in UserIds |-> 0]
    /\ issued = {}
    /\ op = Call("init", <<>>, None, FALSE, NoError, None)

NextGroup ==
    \/ \E user_id \in MemberIds : AddMember("g1", user_id)
    \/ \E user_id \in MemberIds : RemoveMember("g1", user_id)

SpecGroup == InitGroup /\ [][NextGroup]_vars

(* ------------------------------------------------------------------ *)
(* RoleService.delete_role over drawn stores                          *)
(* ------------------------------------------------------------------ *)
NotFoundErrorRole == "NotFoundError: Role with ID not found"
DatabaseConnectionErrorRetrieveRoles ==
    "DatabaseConnectionError: Failed to retrieve roles"

IsRoleObjectId(record_id) == record_id \in RoleIds \cup {"r9"}

\* the $set of BaseRepository.delete
SoftDeleted(record) ==
    [record EXCEPT !.is_deleted = TRUE, !.is_active = FALSE]

CanBeDeleted(role) == ~role.is_system_role

DeleteRoleOutcome(role_id) ==
    IF ~IsRoleObjectId(role_id)
    THEN [roles |-> roles, error |-> DatabaseConnectionErrorRetrieveRoles,
          result |-> None]
    ELSE IF RoleGetById(role_id) = None
    THEN [roles |-> roles, error |-> NotFoundErrorRole, result |-> None]
    ELSE [roles |-> [roles EXCEPT ![role_id] = SoftDeleted(@)],
          error |-> NoError, result |-> TRUE]

DeleteRole(role_id) ==
    /\ roles' = DeleteRoleOutcome(role_id).roles
    /\ op' = Call("delete_role", <<role_id>>, None, FALSE,
                  DeleteRoleOutcome(role_id).error,
                  DeleteRoleOutcome(role_id).result)
    /\ UNCHANGED <<users, permissions, groups, calls, now, failures, issued>>

InitRoles ==
    /\ \E su \in BOOLEAN, rs \in DistinctIdLists(RoleIds),
          ps \in {<<>>, <<"p2">>} :
          users = [u \in {"u1"} |->
                     [NewUser("alice", "alice@x.io", "secret")
                        EXCEPT !.is_superuser = su,
                               !.role_ids = rs,
                               !.permission_ids = ps]]
    /\ \E system \in SUBSET RoleIds :
          roles = [r \in RoleIds |->
                     [NewRole(RoleNameOf[r],
                              IF r = "r1" THEN <<"p1">> ELSE <<"p1", "p2">>)
                        EXCEPT !.is_system_role = r \in system]]
    /\ permissions = [p \in PermIds |-> NewPermission(PermNameOf[p])]
    /\ now = 0
    /\ failures = [u \in UserIds |-> 0]
    /\ issued = {}
    /\ groups = NoGroups
    /\ calls = NoCalls
    /\ op = Call("init", <<>>, None, FALSE, NoError, None)

NextRoles ==
    \/ \E role_id \in RoleIds \cup {"r9", "role-x"} : DeleteRole(role_id)
    \/ \E u \in DOMAIN users, name \in PermNames : QueryHasPermission(u, name)
    \/ \E u \in DOMAIN users, name \in RoleNames : QueryHasRole(u, name)
    \/ \E user_id \in UserIds : QueryGetUserPermissions(user_id)
    \/ \E user_id \in UserIds : QueryGetUserRoles(user_id)

SpecRoles == InitRoles /\ [][NextRoles]_vars

(* ------------------------------------------------------------------ *)
(* UserService / AuthenticationService: creating and updating users   *)
(* ------------------------------------------------------------------ *)
ValidationErrorMissingFields == "ValidationError: Missing required fields"
ValidationErrorUsernameFormat == "ValidationError: Invalid username format"
ValidationErrorEmailFormat == "ValidationError: Invalid email format"
ValidationErrorInvalidPassword == "ValidationError: Invalid password"
ConflictErrorUsernameExists == "ConflictError: Username already exists"
ConflictErrorEmailExists == "ConflictError: Email already exists"
ConflictErrorUsernameTaken == "ConflictError: Username already taken"
ConflictErrorEmailInUse == "ConflictError: Email already in use"
ModelValidationError == "pydantic.ValidationError"
FailedToDeleteUser == "Exception: Failed to delete user"

ConflictErrors ==
    {ConflictErrorUsernameExists, ConflictErrorEmailExists,
     ConflictErrorUsernameTaken, ConflictErrorEmailInUse}

\* The strings offered as usernames and emails: what str.lower().strip()
\* makes of each, its length, and whether it matches the validators' pattern.
NameChars ==
    [s \in {"alice", "Alice", "bob", "al", "alice@x.io", "Alice@x.io",
            "bob@x.io", "bob-at-x"} |->
        [lowered |-> IF s = "Alice" THEN "alice"
                     ELSE IF s = "Alice@x.io" THEN "alice@x.io" ELSE s,
         length |-> IF s = "al" THEN 2 ELSE IF s = "bob" THEN 3 ELSE 5,
         username |-> s \in {"alice", "Alice", "bob", "al"},
         email |-> s \in {"alice@x.io", "Alice@x.io", "bob@x.io"}]]

LowerStrip(s) == NameChars[s].lowered

ValidateUsername(username) ==
    /\ username # ""
    /\ NameChars[username].length >= 3
    /\ NameChars[username].length <= 50
    /\ NameChars[username].username

ValidateEmail(email) == email # "" /\ NameChars[email].email

\* field constraints of the User model: username length, EmailStr
UserModelValidates(username, email) ==
    /\ NameChars[username].length >= 3
    /\ NameChars[username].length <= 50
    /\ NameChars[email].email

CheckUserExists(username, email) ==
    IF GetByUsername(username) # None THEN ConflictErrorUsernameExists
    ELSE IF GetByEmail(email) # None THEN ConflictErrorEmailExists
    ELSE NoError

\* insert_one: the record is stored under an id not yet in the collection
UnusedIds == {u \in UserIds : u \notin DOMAIN users}

Create(record_id, user) ==
    [u \in DOMAIN users \cup {record_id} |->
        IF u = record_id THEN user ELSE users[u]]

CreateUserValidation(username, email, password) ==
    IF username = "" \/ email = "" \/ password = ""
    THEN ValidationErrorMissingFields
    ELSE IF ~ValidateUsername(username) THEN ValidationErrorUsernameFormat
    ELSE IF ~ValidateEmail(email) THEN ValidationErrorEmailFormat
    ELSE IF ~ValidatePassword(password) THEN ValidationErrorInvalidPassword
    ELSE NoError

CreateUserOutcome(username, email, password) ==
    IF CreateUserValidation(username, email, password) # NoError
    THEN CreateUserValidation(username, email, password)
    ELSE CheckUserExists(username, email)

CreateUser(username, email, password) ==
    LET args == <<username, email, password>>
        error == CreateUserOutcome(username, email, password)
    IN
    /\ IF error # NoError
       THEN /\ op' = Call("create_user", args, None, FALSE, error, None)
            /\ UNCHANGED users
       ELSE \E record_id \in UnusedIds :
               /\ users' = Create(record_id,
                                  NewUser(LowerStrip(username),
                                          LowerStrip(email), password))
               /\ op' = Call("create_user", args, record_id, FALSE, NoError,
                             record_id)
    /\ UNCHANGED <<roles, permissions, groups, calls, now, failures, issued>>

RegisterUserOutcome(username, email, password) ==
    IF username = "" \/ email = "" \/ password = ""
    THEN ValidationErrorMissingFields
    ELSE IF CheckUserExists(username, email) # NoError
    THEN CheckUserExists(username, email)
    ELSE IF ~UserModelValidates(username, email) THEN ModelValidationError
    ELSE NoError

RegisterUser(username, email, password) ==
    LET args == <<username, email, password>>
        error == RegisterUserOutcome(username, email, password)
    IN
    /\ IF error # NoError
       THEN /\ op' = Call("register_user", args, None, FALSE, error, None)
            /\ UNCHANGED users
       ELSE \E record_id \in UnusedIds :
               /\ users' = Create(record_id,
                                  NewUser(username, email, password))
               /\ op' = Call("register_user", args, record_id, FALSE,
                             NoError, record_id)
    /\ UNCHANGED <<roles, permissions, groups, calls, now, failures, issued>>

\* update_data carries the key username / email unless the value is None
UpdateUserOutcome(user_id, username, email) ==
    LET existing == users[user_id]
        new_username == LowerStrip(username)
        new_email == LowerStrip(email)
        username_changes == username # None /\ new_username # existing.username
        email_changes == email # None /\ new_email # existing.email
    IN IF username_changes /\ ~ValidateUsername(new_username)
       THEN [error |-> ValidationErrorUsernameFormat, updates |-> <<>>]
       ELSE IF /\ username_changes
               /\ GetByUsername(new_username) \notin {None, user_id}
       THEN [error |-> ConflictErrorUsernameTaken, updates |-> <<>>]
       ELSE IF email_changes /\ ~ValidateEmail(new_email)
       THEN [error |-> ValidationErrorEmailFormat, updates |-> <<>>]
       ELSE IF /\ email_changes
               /\ GetByEmail(new_email) \notin {None, user_id}
       THEN [error |-> ConflictErrorEmailInUse, updates |-> <<>>]
       ELSE [error |-> NoError,
             updates |->
                [f \in (IF username_changes THEN {"username"} ELSE {})
                       \cup (IF email_changes THEN {"email"} ELSE {}) |->
                    IF f = "username" THEN new_username ELSE new_email]]

UpdateUser(user_id, username, email) ==
    LET args == <<user_id, username, email>>
    IN
    /\ IF GetById(user_id) = None
       THEN /\ op' = Call("update_user", args, None, FALSE,
                          NotFoundErrorUser, None)
            /\ UNCHANGED users
       ELSE LET outcome == UpdateUserOutcome(user_id, username, email)
            IN IF outcome.error # NoError
               THEN /\ op' = Call("update_user", args, user_id, FALSE,
                                  outcome.error, None)
                    /\ UNCHANGED users
               ELSE /\ users' = Update(user_id, outcome.updates)
                    /\ op' = Call("update_user", args, user_id, FALSE,
                                  NoError, user_id)
    /\ UNCHANGED <<roles, permissions, groups, calls, now, failures, issued>>

(* ------------------------------------------------------------------ *)
(* UserService.delete and the delete_user mutation                    *)
(* ------------------------------------------------------------------ *)
\* BaseService.delete: get_by_id, then the repository's soft delete
UserServiceDelete(user_id) ==
    /\ IF ~IsObjectId(user_id)
       THEN /\ op' = Call("delete", <<user_id>>, None, FALSE,
                          DatabaseConnectionErrorRetrieve, None)
            /\ UNCHANGED users
       ELSE IF GetById(user_id) = None
       THEN /\ op' = Call("delete", <<user_id>>, None, FALSE,
                          NotFoundErrorUser, None)
            /\ UNCHANGED users
       ELSE /\ users' = [users EXCEPT ![user_id] = SoftDeleted(@)]
            /\ op' = Call("delete", <<user_id>>, user_id, FALSE, NoError, TRUE)
    /\ UNCHANGED <<roles, permissions, groups, calls, now, failures, issued>>

\* UserMutations.delete_user behind @require_permission("users:delete"):
\* the body calls deactivate_user, i.e. update_user({"is_active": False}).
DeleteUserMutation(header, id) ==
    LET args == <<header, id>>
        caller == GetCurrentUser(header, now).result
    IN
    /\ IF ~ContextPredicate("require_permission", header, "users:delete", now)
       THEN /\ op' = Call("delete_user", args, caller, FALSE,
                          AuthorizationErrorPermissions, None)
            /\ UNCHANGED users
       ELSE IF ~IsObjectId(id) \/ GetById(id) = None
       THEN /\ op' = Call("delete_user", args, caller, FALSE,
                          FailedToDeleteUser, None)
            /\ UNCHANGED users
       ELSE /\ users' = Update(id, [is_active |-> FALSE])
            /\ op' = Call("delete_user", args, caller, FALSE, NoError, TRUE)
    /\ UNCHANGED <<roles, permissions, groups, calls, now, failures, issued>>

NewUserInputs ==
    {<<"alice", "bob@x.io">>, <<"Alice", "bob@x.io">>,
     <<"bob", "alice@x.io">>, <<"bob", "Alice@x.io">>,
     <<"bob", "bob@x.io">>, <<"al", "bob@x.io">>,
     <<"bob", "bob-at-x">>, <<"", "bob@x.io">>}

UpdateInputs ==
    {<<None, None>>, <<"alice", None>>, <<"Alice", None>>, <<"bob", None>>,
     <<None, "alice@x.io">>, <<None, "Alice@x.io">>, <<"bob", "bob@x.io">>,
     <<"al", None>>, <<None, "bob-at-x">>}

InitUsers ==
    /\ \E ps \in {<<>>, <<"p1">>} :
          users = [u \in {"u1"} |->
                     [NewUser("alice", "alice@x.io", "secret")
                        EXCEPT !.permission_ids = ps]]
    /\ roles = [r \in RoleIds |-> NewRole(RoleNameOf[r], <<"p2">>)]
    /\ permissions =
          [p \in PermIds |->
              NewPermission(IF p = "p1" THEN "users:delete" ELSE PermNameOf[p])]
    /\ now = 0
    /\ failures = [u \in UserIds |-> 0]
    /\ issued = {}
    /\ groups = NoGroups
    /\ calls = NoCalls
    /\ op = Call("init", <<>>, None, FALSE, NoError, None)

NextUsers ==
    \/ \E input \in NewUserInputs, password \in NewPasswords :
          CreateUser(input[1], input[2], password)
    \/ \E input \in NewUserInputs, password \in {"secret", ""} :
          RegisterUser(input[1], input[2], password)
    \/ \E user_id \in UserIds, input \in UpdateInputs :
          UpdateUser(user_id, input[1], input[2])
    \/ \E user_id \in UserIds \cup {"user123"} : UserServiceDelete(user_id)
    \/ \E header \in {NoHeader, Header("Bearer", 1, ValidAccessToken)},
          id \in UserIds \cup {"user123"} :
          DeleteUserMutation(header, id)
    \/ \E user_id \in UserIds : ActivateUser(user_id)

SpecUsers == InitUsers /\ [][NextUsers]_vars

(* ------------------------------------------------------------------ *)
(* Concurrent authenticate_user calls: the lookup and the counter     *)
(* write of one call are separate store operations                    *)
(* ------------------------------------------------------------------ *)
CallIds == 1..MaxCalls

Pending(kind, args, user, update_data, error, result) ==
    [kind |-> kind, args |-> args, user |-> user, update_data |-> update_data,
     error |-> error, result |-> result]

Start(p, call) ==
    [q \in DOMAIN calls \cup {p} |-> IF q = p THEN call ELSE calls[q]]

Finish(p) == [q \in DOMAIN calls \ {p} |-> calls[q]]

\* authenticate_user up to its await of user_repository.update: the
\* principal is looked up, its status checked and the password verified
\* against the document read; the update is computed from that document.
AuthenticateUserRead(p, identifier, password) ==
    LET args == <<identifier, password>>
        outcome == AuthenticateUserOutcome(identifier, password)
        user == outcome.user
    IN
    /\ p \notin DOMAIN calls
    /\ IF ~outcome.verified
       THEN /\ op' = Call("authenticate_user", args, user, FALSE,
                          outcome.error, None)
            /\ UNCHANGED calls
       ELSE IF outcome.error # NoError
       THEN /\ users[user].failed_login_attempts < MaxCount
            /\ calls' = Start(p, Pending("authenticate_user", args, user,
                                 HandleFailedLogin(users[user], now),
                                 outcome.error, None))
            /\ op' = Call("find_user", args, user, TRUE, NoError, p)
       ELSE /\ calls' = Start(p, Pending("authenticate_user", args, user,
                                 HandleSuccessfulLogin(users[user]),
                                 NoError, user))
            /\ op' = Call("find_user", args, user, TRUE, NoError, p)
    /\ UNCHANGED <<users, roles, permissions, groups, now, failures, issued>>

\* the awaited user_repository.update of _handle_failed_login or
\* _handle_successful_login, and the return of authenticate_user
AuthenticateUserWrite(p) ==
    /\ p \in DOMAIN calls
    /\ calls[p].kind = "authenticate_user"
    /\ users' = Update(calls[p].user, calls[p].update_data)
    /\ failures' = [failures EXCEPT ![calls[p].user] =
                       IF calls[p].error = NoError THEN 0 ELSE @ + 1]
    /\ op' = Call("authenticate_user", calls[p].args, calls[p].user, TRUE,
                  calls[p].error, calls[p].result)
    /\ calls' = Finish(p)
    /\ UNCHANGED <<roles, permissions, groups, now, issued>>

InitLogins ==
    /\ users = [u \in {"u1"} |->
                  [NewUser("alice", "alice@x.io", "secret")
                     EXCEPT !.failed_login_attempts = MAX_LOGIN_ATTEMPTS - 2]]
    /\ failures = [u \in UserIds |->
                     IF u = "u1" THEN MAX_LOGIN_ATTEMPTS - 2 ELSE 0]
    /\ roles = [r \in RoleIds |-> NewRole(RoleNameOf[r], <<"p1">>)]
    /\ permissions = [p \in PermIds |-> NewPermission(PermNameOf[p])]
    /\ now = 0
    /\ issued = {}
    /\ groups = NoGroups
    /\ calls = NoCalls
    /\ op = Call("init", <<>>, None, FALSE, NoError, None)

NextLogins ==
    \/ \E p \in CallIds, password \in Passwords :
          AuthenticateUserRead(p, "alice", password)
    \/ \E p \in CallIds : AuthenticateUserWrite(p)
    \/ ResetFailedAttempts("u1")
    \/ Tick(LOCKOUT_DURATION_MINUTES)

SpecLogins == InitLogins /\ [][NextLogins]_vars

(* ------------------------------------------------------------------ *)
(* Concurrent register_user / create_user calls: the two existence    *)
(* lookups and the insert of one call are separate store operations   *)
(* ------------------------------------------------------------------ *)
NoUsers == [u \in {} |-> None]

Registration(kind, args, pc) == [kind |-> kind, args |-> args, pc |-> pc]

RegistrationKinds == {"register_user", "create_user"}

RegistrationValidation(kind, username, email, password) ==
    IF kind = "create_user"
    THEN CreateUserValidation(username, email, password)
    ELSE IF username = "" \/ email = "" \/ password = ""
         THEN ValidationErrorMissingFields
         ELSE NoError

\* up to the await of get_by_username in _check_user_exists
RegistrationCheckUsername(p, kind, username, email, password) ==
    LET args == <<username, email, password>>
        error == IF RegistrationValidation(kind, username, email, password)
                       # NoError
                 THEN RegistrationValidation(kind, username, email, password)
                 ELSE IF GetByUsername(username) # None
                 THEN ConflictErrorUsernameExists
                 ELSE NoError
    IN
    /\ p \notin DOMAIN calls
    /\ IF error # NoError
       THEN /\ op' = Call(kind, args, None, FALSE, error, None)
            /\ UNCHANGED calls
       ELSE /\ calls' = Start(p, Registration(kind, args, "check_email"))
            /\ op' = Call("get_by_username", args, None, FALSE, NoError, p)
    /\ UNCHANGED <<users, roles, permissions, groups, now, failures, issued>>

\* the await of get_by_email in _check_user_exists
RegistrationCheckEmail(p) ==
    /\ p \in DOMAIN calls
    /\ calls[p].kind \in RegistrationKinds
    /\ calls[p].pc = "check_email"
    /\ IF GetByEmail(calls[p].args[2]) # None
       THEN /\ op' = Call(calls[p].kind, calls[p].args, None, FALSE,
                          ConflictErrorEmailExists, None)
            /\ calls' = Finish(p)
       ELSE /\ op' = Call("get_by_email", calls[p].args, None, FALSE,
                          NoError, p)
            /\ calls' = [calls EXCEPT ![p].pc = "insert"]
    /\ UNCHANGED <<users, roles, permissions, groups, now, failures, issued>>

\* User(**data) and the await of repository.create
RegistrationInsert(p) ==
    LET kind == calls[p].kind
        username == calls[p].args[1]
        email == calls[p].args[2]
        password == calls[p].args[3]
    IN
    /\ p \in DOMAIN calls
    /\ kind \in RegistrationKinds
    /\ calls[p].pc = "insert"
    /\ calls' = Finish(p)
    /\ IF kind = "register_user" /\ ~UserModelValidates(username, email)
       THEN /\ op' = Call(kind, calls[p].args, None, FALSE,
                          ModelValidationError, None)
            /\ UNCHANGED users
       ELSE \E record_id \in UnusedIds :
               /\ users' = Create(record_id,
                             IF kind = "create_user"
                             THEN NewUser(LowerStrip(username),
                                          LowerStrip(email), password)
                             ELSE NewUser(username, email, password))
               /\ op' = Call(kind, calls[p].args, record_id, FALSE, NoError,
                             record_id)
    /\ UNCHANGED <<roles, permissions, groups, now, failures, issued>>

RegistrationInputs ==
    {<<"alice", "alice@x.io">>, <<"alice", "bob@x.io">>,
     <<"bob", "alice@x.io">>, <<"al", "bob@x.io">>}

InitRegistration ==
    /\ users = NoUsers
    /\ roles = [r \in RoleIds |-> NewRole(RoleNameOf[r], <<"p1">>)]
    /\ permissions = [p \in PermIds |-> NewPermission(PermNameOf[p])]
    /\ now = 0
    /\ failures = [u \in UserIds |-> 0]
    /\ issued = {}
    /\ groups = NoGroups
    /\ calls = NoCalls
    /\ op = Call("init", <<>>, None, FALSE, NoError, None)

NextRegistration ==
    \/ \E p \in CallIds, kind \in RegistrationKinds,
          input \in RegistrationInputs, password \in {"N3w!Passw0rd", ""} :
          RegistrationCheckUsername(p, kind, input[1], input[2], password)
    \/ \E p \in CallIds : RegistrationCheckEmail(p)
    \/ \E p \in CallIds : RegistrationInsert(p)

SpecRegistration == InitRegistration /\ [][NextRegistration]_vars

(* ------------------------------------------------------------------ *)
(* Properties of the lockout state machine                            *)
(* ------------------------------------------------------------------ *)
LockedAt(user, t) == user.locked_until # NoneTime /\ user.locked_until > t

ServiceLoginFor(u) ==
    /\ op'.kind = "authenticate_user"
    /\ op'.args[1] # "" /\ op'.args[2] # ""
    /\ FindUserByIdentifier(op'.args[1]) = u

StrategyLoginFor(u) ==
    /\ op'.kind = "strategy_authenticate"
    /\ op'.args[3] # ""
    /\ LET identifier == IF op'.args[1] # "" THEN op'.args[1] ELSE op'.args[2]
       IN identifier # "" /\ GetByEmailOrUsername(identifier) = u

ServiceFailedVerification(u) ==
    /\ ServiceLoginFor(u)
    /\ users[u].is_active
    /\ ~LockedAt(users[u], now)
    /\ ~VerifyPassword(op'.args[2], users[u].hashed_password)

StrategyFailedVerification(u) ==
    /\ StrategyLoginFor(u)
    /\ ~LockedAt(users[u], now)
    /\ ~VerifyPassword(op'.args[3], users[u].hashed_password)

LockImposedIff(u, n) ==
    /\ (users'[u].locked_until = now + LOCKOUT_DURATION_MINUTES)
          <=> (n + 1 >= MAX_LOGIN_ATTEMPTS)
    /\ n + 1 < MAX_LOGIN_ATTEMPTS =>
          /\ users'[u].locked_until = users[u].locked_until
          /\ ~LockedAt(users'[u], now')

C1_Step ==
    \A u \in DOMAIN users :
        /\ ServiceFailedVerification(u) =>
              /\ op'.error = AuthErrorInvalidCredentials
              /\ op'.result = None
              /\ users'[u].failed_login_attempts
                    = users[u].failed_login_attempts + 1
              /\ LockImposedIff(u, users[u].failed_login_attempts)
        /\ StrategyFailedVerification(u) =>
              /\ op'.error = AuthErrorInvalidCredentials
              /\ op'.result = None
              /\ users'[u].login_attempts = users[u].login_attempts + 1
              /\ LockImposedIff(u, users[u].login_attempts)

\* C1: a failed password verification for a principal that is not locked
\* stores the entry point's failed-attempt counter n as n + 1, fails with
\* "Invalid credentials", and sets locked_until = now + 30 exactly when
\* n + 1 >= 5; below that the principal stays unlocked.
C1_FailedLoginIncrementsOnce == [][C1_Step]_vars

C1_Witness ==
    /\ op.kind = "authenticate_user"
    /\ op.error = AuthErrorInvalidCredentials
    /\ op.user = "u1"
    /\ users["u1"].failed_login_attempts = MAX_LOGIN_ATTEMPTS
    /\ users["u1"].locked_until = now + LOCKOUT_DURATION_MINUTES

PasswordLoginFor(u) == ServiceLoginFor(u) \/ StrategyLoginFor(u)

LockoutFieldsUnchanged(u) ==
    /\ users'[u].failed_login_attempts = users[u].failed_login_attempts
    /\ users'[u].login_attempts = users[u].login_attempts
    /\ users'[u].locked_until = users[u].locked_until

C2_OriginalStep ==
    \A u \in DOMAIN users :
        (PasswordLoginFor(u) /\ LockedAt(users[u], now)) =>
            /\ op'.error \in {AuthErrorLocked, AuthErrorLockedStrategy}
            /\ ~op'.verified
            /\ op'.result = None
            /\ LockoutFieldsUnchanged(u)

\* C2 (as stated): while locked_until is in the future every password login
\* for the principal fails with the account-locked error, without verifying
\* the password and without touching the counters or locked_until.
C2_LockedLoginFailsLocked == [][C2_OriginalStep]_vars

C2_AmendedStep ==
    \A u \in DOMAIN users :
        (PasswordLoginFor(u) /\ LockedAt(users[u], now)) =>
            /\ op'.error =
                  IF StrategyLoginFor(u) THEN AuthErrorLockedStrategy
                  ELSE IF users[u].is_active THEN AuthErrorLocked
                  ELSE AuthErrorInactive
            /\ ~op'.verified
            /\ op'.result = None
            /\ LockoutFieldsUnchanged(u)

\* C2 (amended): while locked_until is in the future every password login
\* for the principal fails without verifying the password and leaves the
\* counters and locked_until unchanged; the error is the account-locked
\* error, except that authenticate_user reports "Account is inactive" for
\* a principal with is_active = false.
C2_LockedLoginFailsUntouched == [][C2_AmendedStep]_vars

C2_Witness ==
    /\ op.kind = "authenticate_user"
    /\ op.args[2] = "secret"
    /\ op.error = AuthErrorLocked
    /\ LockedAt(users["u1"], now)
    /\ users["u1"].failed_login_attempts = MAX_LOGIN_ATTEMPTS

PasswordLoginSucceeded ==
    /\ op.kind \in {"authenticate_user", "strategy_authenticate"}
    /\ op.error = NoError

\* C3: after every successful password authentication the principal is
\* stored with failed-attempt counter 0 and locked_until cleared.
C3_SuccessResetsCounter ==
    PasswordLoginSucceeded =>
        /\ users[op.user].failed_login_attempts = 0
        /\ users[op.user].login_attempts = 0
        /\ users[op.user].locked_until = NoneTime

C4_Step ==
    \A u \in DOMAIN users :
        (/\ LockedAt(users[u], now)
         /\ op'.kind \in {"authenticate_user", "strategy_authenticate",
                          "email_authenticate"})
        => op'.result # u

\* C4: while locked_until is in the future none of the three authenticate
\* entry points returns the principal.
C4_NoStrategyReturnsLocked == [][C4_Step]_vars

\* C5: once maxAttempts failed password verifications have occurred for a
\* principal with no successful login in between, whatever the mix of entry
\* points, the principal is locked.
C5_SharedCountLocks ==
    (/\ op.kind \in {"authenticate_user", "strategy_authenticate"}
     /\ op.verified
     /\ op.error = AuthErrorInvalidCredentials
     /\ failures[op.user] >= MAX_LOGIN_ATTEMPTS)
    => LockedAt(users[op.user], now)

LockExpired(user, t) == user.locked_until # NoneTime /\ user.locked_until <= t

LazyExpiryStep(serviceNeedsActive) ==
    \A u \in DOMAIN users :
        /\ (ServiceLoginFor(u) /\ LockExpired(users[u], now)
               /\ (serviceNeedsActive => users[u].is_active)) =>
              /\ op'.verified
              /\ VerifyPassword(op'.args[2], users[u].hashed_password) =>
                    (op'.error = NoError /\ op'.result = u)
        /\ (StrategyLoginFor(u) /\ LockExpired(users[u], now)) =>
              /\ op'.verified
              /\ VerifyPassword(op'.args[3], users[u].hashed_password) =>
                    (op'.error = NoError /\ op'.result = u)
        /\ op'.kind = "tick" => LockoutFieldsUnchanged(u)

SuccessfulLoginStep(kind, u) ==
    op'.kind = kind /\ op'.error = NoError /\ op'.result = u

C6_OriginalStep ==
    /\ LazyExpiryStep(FALSE)
    /\ \A u \in DOMAIN users :
          /\ (users[u].failed_login_attempts > 0
                 /\ users'[u].failed_login_attempts = 0)
                => SuccessfulLoginStep("authenticate_user", u)
          /\ (users[u].login_attempts > 0 /\ users'[u].login_attempts = 0)
                => SuccessfulLoginStep("strategy_authenticate", u)

\* C6 (as stated): after locked_until has passed a password login is
\* evaluated as for an unlocked principal, the passage of time resets
\* nothing, and a counter returns to 0 only at a successful authentication.
C6_ResetOnlyOnSuccess == [][C6_OriginalStep]_vars

C6_AmendedStep ==
    /\ LazyExpiryStep(TRUE)
    /\ \A u \in DOMAIN users :
          /\ (users[u].failed_login_attempts > 0
                 /\ users'[u].failed_login_attempts = 0)
                => \/ SuccessfulLoginStep("authenticate_user", u)
                   \/ op'.kind = "reset_failed_attempts" /\ op'.args[1] = u
          /\ (users[u].login_attempts > 0 /\ users'[u].login_attempts = 0)
                => SuccessfulLoginStep("strategy_authenticate", u)

\* C6 (amended): after locked_until has passed a password login (through
\* authenticate_user: of an active principal) is evaluated as for an
\* unlocked principal, the passage of time resets
\* nothing, and a counter returns to 0 only at a successful authentication
\* or at an explicit reset_failed_attempts call.
C6_ResetOnlyOnSuccessOrReset == [][C6_AmendedStep]_vars

C6_Witness ==
    /\ op.kind = "authenticate_user"
    /\ op.error = NoError
    /\ op.result = "u1"
    /\ now >= LOCKOUT_DURATION_MINUTES
    /\ failures["u1"] = 0
    /\ users["u1"].login_attempts = MAX_LOGIN_ATTEMPTS

(* ------------------------------------------------------------------ *)
(* Properties of the authorization service                            *)
(* ------------------------------------------------------------------ *)
HeldRoles(user) == ToSet(user.role_ids) \cap DOMAIN roles

GrantedPermissionIds(user) ==
    (ToSet(user.permission_ids)
       \cup UNION {ToSet(roles[r].permission_ids) : r \in HeldRoles(user)})
    \cap DOMAIN permissions

SuperuserQuery ==
    /\ op.kind \in {"has_permission", "has_role", "has_any_permission",
                    "has_all_permissions"}
    /\ users[op.user].is_superuser

QueryAnswer ==
    IF op.kind \in {"has_any_permission", "has_all_permissions"}
    THEN op.result.result ELSE op.result

\* C8 (as stated): for a superuser has_permission, has_role,
\* has_any_permission and has_all_permissions return true for every name
\* and every list of names.
C8_SuperuserAlwaysTrue == SuperuserQuery => QueryAnswer = TRUE

\* C8 (amended): for a superuser has_permission and has_role return true for
\* every name, has_all_permissions returns true for every list, and
\* has_any_permission returns true for every non-empty list (false for the
\* empty list).
C8_SuperuserTrueUnlessEmptyAny ==
    SuperuserQuery =>
        QueryAnswer = ~(op.kind = "has_any_permission" /\ op.args[2] = <<>>)

C8_Witness ==
    /\ op.kind = "has_any_permission"
    /\ users[op.user].is_superuser
    /\ op.args[2] = <<"users:write">>
    /\ "p2" \notin DOMAIN permissions
    /\ op.result.result = TRUE

FirstDeciding(user, names, decides) ==
    IF \E i \in 1..Len(names) : HasPermission(user, names[i]) = decides
    THEN CHOOSE i \in 1..Len(names) :
            /\ HasPermission(user, names[i]) = decides
            /\ \A j \in 1..(i - 1) : HasPermission(user, names[j]) # decides
    ELSE Len(names)

LookupsWithin(user, evaluated, lookups) ==
    lookups = IF user.is_superuser THEN <<>> ELSE evaluated

\* C9: has_any_permission is the disjunction and has_all_permissions the
\* conjunction of has_permission over the list, evaluated left to right up
\* to and including the first element that decides the result; no
\* permission lookup is made for a later name.
C9_ShortCircuit ==
    /\ op.kind = "has_any_permission" =>
          LET user == users[op.user]
              names == op.args[2]
          IN /\ op.result.result
                   = (\E i \in 1..Len(names) : HasPermission(user, names[i]))
             /\ op.result.evaluated
                   = SubSeq(names, 1, FirstDeciding(user, names, TRUE))
             /\ LookupsWithin(user, op.result.evaluated, op.result.lookups)
    /\ op.kind = "has_all_permissions" =>
          LET user == users[op.user]
              names == op.args[2]
          IN /\ op.result.result
                   = (\A i \in 1..Len(names) : HasPermission(user, names[i]))
             /\ op.result.evaluated
                   = SubSeq(names, 1, FirstDeciding(user, names, FALSE))
             /\ LookupsWithin(user, op.result.evaluated, op.result.lookups)

C9_Witness ==
    /\ op.kind = "has_any_permission"
    /\ ~users[op.user].is_superuser
    /\ Len(op.args[2]) = 2
    /\ op.result.result = TRUE
    /\ op.result.lookups = <<op.args[2][1]>>

RoundTrips(data, token, type, exp) ==
    LET decoded == DecodeToken(token, now)
    IN /\ decoded.error = NoError
       /\ \A k \in DOMAIN data :
             k \in DOMAIN decoded.payload /\ decoded.payload[k] = data[k]
       /\ decoded.payload.type = type
       /\ decoded.payload.exp = exp
       /\ exp > now

CreatedTokenRoundTrips ==
    /\ op.kind = "create_access_token" =>
          RoundTrips(op.args[1], op.result, "access",
                     now + ACCESS_TOKEN_EXPIRE_MINUTES)
    /\ op.kind = "create_refresh_token" =>
          RoundTrips(op.args[1], op.result, "refresh",
                     now + REFRESH_TOKEN_EXPIRE_MINUTES)
    /\ op.kind = "create_action_token" =>
          RoundTrips(op.args[1], op.result, op.args[3], now + op.args[2])

CreateCall ==
    op.kind \in {"create_access_token", "create_refresh_token",
                 "create_action_token"}

C13_DecodeFailsOnlyWithTokenError ==
    op.kind = "decode_token" =>
        LET token == op.args[1]
            signed == token.kind = "jwt" /\ token.signature = SECRET_KEY
        IN /\ op.error \in {NoError, TokenErrorExpired, TokenErrorInvalid}
           /\ TokenErrorExpired # TokenErrorInvalid
           /\ ~signed => op.error = TokenErrorInvalid
           /\ (signed /\ token.payload.exp <= now)
                 => op.error = TokenErrorExpired
           /\ (signed /\ token.payload.exp > now)
                 => (op.error = NoError /\ op.result = token.payload)

C13_Witness ==
    /\ op.kind = "decode_token"
    /\ op.error = TokenErrorExpired
    /\ op.args[1] \in issued

(* ------------------------------------------------------------------ *)
(* Properties of the token paths                                      *)
(* ------------------------------------------------------------------ *)
TokenPathType ==
    [validate_token |-> "access", refresh_access_token |-> "refresh",
     set_password_with_token |-> "set_password"]

Decodes(token, t) == DecodeToken(token, t).error = NoError

TokenType(token) == DictGet(token.payload, "type")

TokenSubject(token) == DictGet(token.payload, "sub")

StoredStateUnchanged == UNCHANGED <<users, roles, permissions>>

C11_Step ==
    op'.kind \in DOMAIN TokenPathType =>
        LET token == op'.args[1]
            expected == TokenPathType[op'.kind]
        IN /\ op'.error = NoError =>
                 (Decodes(token, now) /\ TokenType(token) = expected)
           /\ (Decodes(token, now) /\ TokenType(token) # expected) =>
                 /\ op'.error \in AuthenticationErrors
                 /\ StoredStateUnchanged
                 /\ issued' = issued

\* C11: validate_token succeeds only for type=access, refresh_access_token
\* only for type=refresh and set_password_with_token only for
\* type=set_password; a validly signed, unexpired token of any other type
\* is rejected with an AuthenticationError and nothing stored changes.
C11_TokenTypeMatchesPath == [][C11_Step]_vars

C11_Witness ==
    /\ op.kind = "set_password_with_token"
    /\ op.args[1] \in issued
    /\ Decodes(op.args[1], now)
    /\ TokenType(op.args[1]) = "access"
    /\ op.args[2] = "N3w!Passw0rd"
    /\ op.error = AuthErrorInvalidTokenType

\* C14: validate_token returns a principal only when the token decodes, has
\* type=access, carries a subject and the subject is a stored principal
\* with is_active = true; every failure reaches the caller as an
\* AuthenticationError.
C14_ValidateFailsWithAuthenticationError ==
    op.kind = "validate_token" =>
        LET token == op.args[1]
        IN /\ op.error = NoError =>
                 /\ Decodes(token, now)
                 /\ TokenType(token) = "access"
                 /\ TokenSubject(token) \in DOMAIN users
                 /\ users[TokenSubject(token)].is_active
                 /\ op.result = TokenSubject(token)
           /\ op.error # NoError => op.error \in AuthenticationErrors

SubjectIsActive(token) ==
    /\ TokenSubject(token) \in DOMAIN users
    /\ users[TokenSubject(token)].is_active

\* C15: every issued access or refresh token whose exp has not passed and
\* whose subject is an active stored principal is accepted by decode_token
\* and by validate_token (access) resp. refresh_access_token (refresh),
\* whatever operations ran since it was issued.
C15_IssuedTokensStayAccepted ==
    /\ \A token \in issued :
          (token.payload.exp > now /\ SubjectIsActive(token)) =>
             /\ Decodes(token, now)
             /\ TokenType(token) = "access" =>
                   ValidateToken(token, now)
                      = Outcome(NoError, TokenSubject(token))
             /\ TokenType(token) = "refresh" =>
                   RefreshAccessToken(token, now).error = NoError
    /\ (/\ op.kind \in {"validate_token", "refresh_access_token"}
        /\ op.args[1] \in issued
        /\ TokenType(op.args[1]) = TokenPathType[op.kind]
        /\ op.args[1].payload.exp > now
        /\ SubjectIsActive(op.args[1]))
       => op.error = NoError

C15_Witness ==
    /\ op.kind = "validate_token"
    /\ op.args[1] \in issued
    /\ op.error = NoError
    /\ op.result = "u1"
    /\ VerifyPassword("N3w!Passw0rd", users["u1"].hashed_password)
    /\ LockedAt(users["u1"], now)
    /\ users["u1"].is_superuser # op.args[1].payload.is_superuser

RefreshAccepts(token, t) ==
    /\ Decodes(token, t)
    /\ TokenType(token) = "refresh"
    /\ SubjectIsActive(token)

C18_Step ==
    op'.kind = "refresh_access_token" =>
        LET token == op'.args[1]
        IN /\ (op'.error = NoError) <=> RefreshAccepts(token, now)
           /\ op'.error = NoError =>
                 LET access == op'.result.access_token
                 IN /\ Decodes(access, now)
                    /\ TokenType(access) = "access"
                    /\ TokenSubject(access) = TokenSubject(token)
                    /\ access \in issued'
           /\ op'.error # NoError =>
                 (op'.error \in AuthenticationErrors /\ issued' = issued)
           /\ StoredStateUnchanged

\* C18: refresh_access_token returns a new access token for the refresh
\* token's subject exactly when the token decodes, has type=refresh and its
\* subject is a stored principal with is_active = true; otherwise it fails
\* with an AuthenticationError; it never changes stored state.
C18_RefreshIffValidRefreshToken == [][C18_Step]_vars

C18_Witness ==
    /\ op.kind = "refresh_access_token"
    /\ op.args[1] \in issued
    /\ op.error = NoError
    /\ TokenSubject(op.result.access_token) = "u1"
    /\ LockedAt(users["u1"], now)

(* ------------------------------------------------------------------ *)
(* Properties of failed logins and of the email strategy              *)
(* ------------------------------------------------------------------ *)
KnownIdentifierWrongPassword ==
    /\ op.kind = "authenticate_user"
    /\ op.args[1] # "" /\ op.args[2] # ""
    /\ op.user # None
    /\ ~VerifyPassword(op.args[2], users[op.user].hashed_password)

\* C19: in every stored principal state, authenticate_user with a known
\* identifier and a wrong password fails with the same error kind and
\* message as authenticate_user with an unknown identifier.
C19_FailedLoginUniform ==
    KnownIdentifierWrongPassword =>
        op.error = AuthenticateUserOutcome("nobody", op.args[2]).error

\* C20: the email strategy returns a principal only if a stored principal
\* with exactly the input email exists and is active; a supplied magic
\* token must decode and embed the input email, and fails with
\* AuthenticationError otherwise.
C20_EmailReturnsActivePrincipal ==
    op.kind = "email_authenticate" =>
        LET email == op.args[1]
            magic_token == op.args[2]
            token_ok == /\ Decodes(magic_token, now)
                        /\ DictGet(magic_token.payload, "email") = email
        IN /\ op.result # None =>
                /\ op.result \in DOMAIN users
                /\ users[op.result].email = email
                /\ users[op.result].is_active
                /\ magic_token.kind # "none" => token_ok
           /\ (op.user # None /\ magic_token.kind # "none" /\ ~token_ok) =>
                op.error = AuthErrorInvalidMagic

(* ------------------------------------------------------------------ *)
(* Properties of the request boundary and of the gates                *)
(* ------------------------------------------------------------------ *)
HeaderCarriesValidAccessToken(header, t) ==
    /\ header.present /\ header.scheme = "Bearer" /\ header.spaces = 1
    /\ Decodes(header.credentials, t)
    /\ TokenType(header.credentials) = "access"
    /\ SubjectIsActive(header.credentials)

GatePredicate ==
    /\ op.user # None
    /\ ServicePredicate(op.kind, users[op.user], op.args[4])

AuthenticationRequiredErrors ==
    AuthenticationErrors \cup {Http401AuthenticationFailed}

AuthorizationDeniedErrors ==
    {AuthorizationErrorPermissions, AuthorizationErrorRole, Http403Required}

\* C17: a gate with no resolvable principal fails with the
\* authentication-required error and never with the authorization-denied
\* error; with a resolved principal for which the predicate is false it
\* fails with the authorization-denied error naming what was required; the
\* protected operation runs only when the predicate is true.
C17_GateAuthenticatesFirst ==
    op.kind \in GateKinds =>
        /\ op.user = None => op.error \in AuthenticationRequiredErrors
        /\ (op.user # None /\ ~GatePredicate) =>
              /\ op.error \in AuthorizationDeniedErrors
              /\ op.result.required = RequiredNames(op.kind, op.args[4])
        /\ op.result.ran => GatePredicate

(* ------------------------------------------------------------------ *)
(* Properties of expired lockouts and of deactivated principals       *)
(* ------------------------------------------------------------------ *)
FailedVerificationFor(u) ==
    /\ op'.kind \in {"authenticate_user", "strategy_authenticate"}
    /\ op'.user = u
    /\ op'.verified
    /\ op'.error = AuthErrorInvalidCredentials

C29_Step ==
    \A u \in DOMAIN users :
        (LockExpired(users[u], now) /\ FailedVerificationFor(u)) =>
            users'[u].locked_until = now + LOCKOUT_DURATION_MINUTES

\* C29: after a lockout has expired with no successful login or reset in
\* between (locked_until still stored, in the past), a single further
\* failed password verification re-imposes a full lockout,
\* locked_until = now + lockoutDuration.
C29_ExpiredLockoutRelocks == [][C29_Step]_vars

C30_Step ==
    \A u \in DOMAIN users :
        (~users[u].is_active /\ PasswordLoginFor(u)) =>
            /\ op'.error # NoError
            /\ op'.result # u
            /\ LockoutFieldsUnchanged(u)

\* C30: while is_active is false, authenticate_user and the password
\* strategy's authenticate both reject the principal, even with the
\* correct password, and leave its counters and locked_until as stored.
C30_DeactivatedCannotAuthenticate == [][C30_Step]_vars

(* ------------------------------------------------------------------ *)
(* Properties of group membership                                     *)
(* ------------------------------------------------------------------ *)
WithinCapacity(group) ==
    /\ \A i, j \in DOMAIN group.member_ids :
          group.member_ids[i] = group.member_ids[j] => i = j
    /\ group.max_members # NoMaxMembers =>
          Len(group.member_ids) <= group.max_members

C25_Step ==
    \A g \in DOMAIN groups :
        LET group == groups[g]
            user_id == op'.args[2]
            member == In(user_id, group.member_ids)
        IN (op'.kind \in {"add_member", "remove_member"} /\ op'.args[1] = g) =>
             /\ WithinCapacity(groups'[g])
             /\ (op'.kind = "add_member" /\ member) =>
                   /\ op'.error = NoError /\ op'.result = FALSE
                   /\ groups'[g] = group
             /\ (op'.kind = "remove_member" /\ ~member) =>
                   /\ op'.error = NoError /\ op'.result = FALSE
                   /\ groups'[g] = group
             /\ (op'.kind = "add_member" /\ ~member) =>
                   /\ (op'.error = ValueErrorCapacity) <=> ~CanAddMember(group)
                   /\ op'.error \in {NoError, ValueErrorCapacity}
                   /\ op'.error = ValueErrorCapacity => groups'[g] = group
                   /\ op'.error = NoError =>
                         /\ op'.result = TRUE
                         /\ ToSet(groups'[g].member_ids)
                               = ToSet(group.member_ids) \cup {user_id}
             /\ (op'.kind = "remove_member" /\ member) =>
                   /\ op'.error = NoError /\ op'.result = TRUE
                   /\ ToSet(groups'[g].member_ids)
                         = ToSet(group.member_ids) \ {user_id}

\* C25: from a duplicate-free member_ids within capacity, every add_member /
\* remove_member leaves member_ids duplicate-free and within max_members;
\* adding a member and removing a non-member return False and change
\* nothing, even at capacity; adding a new member raises ValueError and
\* changes nothing exactly when can_add_member() is false.
C25_MembershipIsBoundedSet == [][C25_Step]_vars

C25_Witness ==
    /\ op.kind = "add_member"
    /\ op.error = NoError
    /\ op.result = FALSE
    /\ In(op.args[2], groups["g1"].member_ids)
    /\ groups["g1"].max_members # NoMaxMembers
    /\ Len(groups["g1"].member_ids) = groups["g1"].max_members

(* ------------------------------------------------------------------ *)
(* Properties of role deletion                                        *)
(* ------------------------------------------------------------------ *)
C22_Step ==
    \A r \in DOMAIN roles :
        (/\ op'.kind = "delete_role"
         /\ op'.args[1] = r
         /\ ~CanBeDeleted(roles[r]))
        => /\ roles'[r] = roles[r]
           /\ op'.error = NoError => op'.result = FALSE

\* C22: delete_role of a role whose is_system_role flag is true neither
\* deletes nor soft-deletes it: the role stays stored, active and unchanged.
C22_SystemRolesNotDeletable == [][C22_Step]_vars

LiveRoles(user) == {r \in HeldRoles(user) : ~roles[r].is_deleted}

LivePermissionIds(user) ==
    ToSet(user.permission_ids)
    \cup UNION {ToSet(roles[r].permission_ids) : r \in LiveRoles(user)}

LivePermissionNames(user) ==
    {permissions[p].name : p \in LivePermissionIds(user) \cap DOMAIN permissions}

\* C28: once a role is soft-deleted, a non-superuser principal gets no
\* permission and no role name from holding its id: has_permission and
\* has_role answer true, and get_user_permissions / get_user_roles list a
\* name, only on account of a direct grant or of a role that is not deleted.
C28_DeletedRoleConfersNothing ==
    (op.user # None /\ ~users[op.user].is_superuser) =>
        LET user == users[op.user]
        IN /\ (op.kind = "has_permission" /\ op.result = TRUE) =>
                 op.args[2] \in LivePermissionNames(user)
           /\ (op.kind = "has_role" /\ op.result = TRUE) =>
                 \E r \in LiveRoles(user) : roles[r].name = op.args[2]
           /\ op.kind = "get_user_permissions" =>
                 ToSet(op.result) \subseteq LivePermissionNames(user)
           /\ op.kind = "get_user_roles" =>
                 ToSet(op.result) \subseteq
                    {roles[r].name : r \in LiveRoles(user)}

(* ------------------------------------------------------------------ *)
(* Properties of the principal store                                  *)
(* ------------------------------------------------------------------ *)
\* C21: after any sequence of completed create_user, register_user and
\* update_user calls no two stored principals have the same username and
\* no two have the same email.
C21_UsernameAndEmailUnique ==
    \A u, v \in DOMAIN users :
        u # v => /\ users[u].username # users[v].username
                 /\ users[u].email # users[v].email

C23_Step ==
    (op'.kind = "delete_user" /\ op'.error = NoError /\ op'.result = TRUE) =>
        /\ op'.args[2] \in DOMAIN users'
        /\ users'[op'.args[2]].is_deleted
        /\ ~users'[op'.args[2]].is_active

\* C23: when the delete_user mutation returns true for a caller holding
\* users:delete, the target is stored soft-deleted (is_deleted = true,
\* is_active = false, record still present), as UserService.delete leaves it.
C23_DeleteUserSoftDeletes == [][C23_Step]_vars

(* ------------------------------------------------------------------ *)
(* Properties of concurrent logins                                    *)
(* ------------------------------------------------------------------ *)
FailedLoginWriteBy(p) ==
    /\ p \in DOMAIN calls
    /\ calls' = Finish(p)
    /\ calls[p].error = AuthErrorInvalidCredentials

\* the counter p read, and whether it has not been reset since
ReadCounter(p) == calls[p].update_data.failed_login_attempts - 1

C24_Step ==
    \A p \in DOMAIN calls :
        LET u == calls[p].user
        IN (/\ FailedLoginWriteBy(p)
            /\ users[u].failed_login_attempts >= ReadCounter(p))
           => /\ users'[u].failed_login_attempts
                    = users[u].failed_login_attempts + 1
              /\ users'[u].failed_login_attempts >= MAX_LOGIN_ATTEMPTS =>
                    users'[u].locked_until # NoneTime

\* C24: among concurrent failed logins (no success or reset in between)
\* every completing failed login raises the stored failed-attempt counter
\* by exactly one, so k of them raise it by k, and the principal carries a
\* lock once the count is >= maxAttempts.
C24_NoFailedAttemptLost == [][C24_Step]_vars

C26_Step ==
    \A u \in DOMAIN users :
        (/\ LockedAt(users[u], now)
         /\ op'.kind = "authenticate_user"
         /\ op'.user = u
         /\ op'.error = AuthErrorInvalidCredentials)
        => /\ users'[u].locked_until >= users[u].locked_until
           /\ users'[u].failed_login_attempts
                 >= users[u].failed_login_attempts

\* C26: while locked_until is stored with a future value, the store write
\* of a failed login never clears it, never moves it earlier and never
\* lowers the stored failed-attempt counter.
C26_FailedLoginNeverLiftsLock == [][C26_Step]_vars

(* ------------------------------------------------------------------ *)
(* Properties of concurrent registrations                             *)
(* ------------------------------------------------------------------ *)
C27_Step ==
    (/\ op'.kind \in RegistrationKinds
     /\ op'.error = NoError
     /\ op'.result \in DOMAIN users' \ DOMAIN users)
    => \A v \in DOMAIN users :
          /\ users[v].username # users'[op'.result].username
          /\ users[v].email # users'[op'.result].email

\* C27: of register_user / create_user calls carrying the same username or
\* the same email, in every interleaving of their lookups and inserts at
\* most one creates a principal: a call never creates a principal whose
\* username or email an already stored principal carries.
C27_RegistrationsMutuallyExclusive == [][C27_Step]_vars

TypeOK ==
    /\ now \in 0..MaxTime
    /\ \A u \in DOMAIN users :
          /\ users[u].failed_login_attempts \in 0..MaxCount
          /\ users[u].login_attempts \in 0..MaxCount

====
